---- MODULE Spec2Model ----
(***************************************************************************)
(* A model of InvoiceTaxApp's BusinessTaxCalculator (the "Ledger"): the    *)
(* in-memory invoice list, the three configuration fields, the backing    *)
(* JSON file, and the operations of calculator-py.py.                      *)
(*                                                                         *)
(* Conventions of the model:                                               *)
(*  - a Python str that the code formats or parses (dates in the file,     *)
(*    invoice ids) is a sequence of one-character strings;                 *)
(*  - a datetime.date is a record [year, month, day];                      *)
(*  - an amount is a whole number of currency units and a tax rate is a    *)
(*    whole number of percent (0.0 is 0, 1.0 is RateOne);                  *)
(*  - a JSON document is a record whose DOMAIN is the set of keys present. *)
(*                                                                         *)
(* The module also models PdfInvoiceExtractor.extract_from_pdf of          *)
(* pdf-extractor-py.py: one call, page by page, on a document given as its *)
(* pages' tables and text.                                                 *)
(***************************************************************************)
EXTENDS Integers, Sequences, FiniteSets, TLC

VARIABLES
    invoices,        \* self.invoices: the list, in insertion order
    fed_tax_rate,    \* self.fed_tax_rate
    state_tax_rate,  \* self.state_tax_rate
    state_code,      \* self.state_code
    data_file,       \* self.data_file: the path of the backing file
    files,           \* the file system: path -> content
    last,            \* the last call: operation, arguments, outcome
    faults,          \* number of failed writes so far
    extract          \* the call of extract_from_pdf in progress, if any

vars == <<invoices, fed_tax_rate, state_tax_rate, state_code, data_file, files, last, faults,
          extract>>

-----------------------------------------------------------------------------
(* Bounds of the model *)

MaxInvoices == 2     \* the persistence specification holds at most this many invoices
MaxQueryInvoices == 3 \* the query specification holds at most this many invoices
MaxFaults == 1       \* at most this many failed writes in one behaviour

(* Program constants *)

RateZero == 0        \* 0.0 in "0.0 <= fed_rate <= 1.0"
RateOne == 100       \* 1.0 in "0.0 <= fed_rate <= 1.0", in percent
DefaultFedRate == 20 \* fed_tax_rate=0.20
DefaultStateRate == 5 \* state_tax_rate=0.05

-----------------------------------------------------------------------------
(* Strings as sequences of characters *)

\* the characters of a string literal, one by one
Chars(s) == [i \in 1..Len(s) |-> SubSeq(s, i, i)]

DigitChars == <<"0", "1", "2", "3", "4", "5", "6", "7", "8", "9">>

IsDigit(c) == \E i \in 1..10 : DigitChars[i] = c

DigitValue(c) == (CHOOSE i \in 1..10 : DigitChars[i] = c) - 1

RECURSIVE Digits(_)
\* str(n) for n >= 0
Digits(n) == IF n < 10 THEN <<DigitChars[n + 1]>>
             ELSE Digits(n \div 10) \o <<DigitChars[(n % 10) + 1]>>

RECURSIVE ZeroFill(_, _)
ZeroFill(s, w) == IF Len(s) >= w THEN s ELSE ZeroFill(<<"0">> \o s, w)

\* format(n, "0<w>d"): decimal, zero-padded on the left to at least w characters
Pad(n, w) == ZeroFill(Digits(n), w)

RECURSIVE Split(_, _)
\* s.split(sep) for a one-character separator
Split(s, sep) ==
    IF \A i \in 1..Len(s) : s[i] # sep THEN <<s>>
    ELSE LET k == CHOOSE i \in 1..Len(s) : s[i] = sep /\ \A j \in 1..(i - 1) : s[j] # sep
         IN  <<SubSeq(s, 1, k - 1)>> \o Split(SubSeq(s, k + 1, Len(s)), sep)

\* int(s) accepts a non-empty run of digits (of the characters the model uses)
IsIntLiteral(s) == Len(s) > 0 /\ \A i \in 1..Len(s) : IsDigit(s[i])

RECURSIVE ParseInt(_)
ParseInt(s) == IF Len(s) = 0 THEN 0
               ELSE 10 * ParseInt(SubSeq(s, 1, Len(s) - 1)) + DigitValue(s[Len(s)])

-----------------------------------------------------------------------------
(* datetime.date and calendar *)

IsLeap(y) == (y % 4 = 0) /\ ((y % 100 # 0) \/ (y % 400 = 0))

\* calendar.monthrange(year, month)[1]
DaysInMonth(y, m) ==
    IF m = 2 THEN (IF IsLeap(y) THEN 29 ELSE 28)
    ELSE IF m \in {4, 6, 9, 11} THEN 30 ELSE 31

MkDate(y, m, d) == [year |-> y, month |-> m, day |-> d]

\* datetime.date(y, m, d) raises ValueError outside these ranges
ValidDate(y, m, d) ==
    /\ y \in 1..9999
    /\ m \in 1..12
    /\ d \in 1..DaysInMonth(y, m)

\* a < b in place of a <= b
DateLE_strict(a, b) ==
    \/ a.year < b.year
    \/ a.year = b.year /\ a.month < b.month
    \/ a.year = b.year /\ a.month = b.month /\ a.day < b.day

\* a <= b on datetime.date
DateLE(a, b) ==
    \/ a.year < b.year
    \/ a.year = b.year /\ a.month < b.month
    \/ a.year = b.year /\ a.month = b.month /\ a.day <= b.day

\* isoformat with the fields in day-month-year order
isoformat_dmy(d) == Pad(d.day, 2) \o <<"-">> \o Pad(d.month, 2) \o <<"-">> \o Pad(d.year, 4)

\* date.isoformat(): YYYY-MM-DD
isoformat(d) == Pad(d.year, 4) \o <<"-">> \o Pad(d.month, 2) \o <<"-">> \o Pad(d.day, 2)

\* date.strftime('%Y%m%d')
strftime_Ymd(d) == Pad(d.year, 4) \o Pad(d.month, 2) \o Pad(d.day, 2)

-----------------------------------------------------------------------------
(* JSON values and the backing file *)

JNum(n) == [num |-> n]
JStr(s) == [str |-> s]
JNull == [null |-> TRUE]

IsJNum(v) == "num" \in DOMAIN v
IsJStr(v) == "str" \in DOMAIN v

\* the Python object json.load gives for a JSON scalar
PyValue(v) == IF IsJNum(v) THEN v.num ELSE IF IsJStr(v) THEN v.str ELSE "None"

NoFile == [kind |-> "absent"]        \* os.path.exists(path) is false
Malformed == [kind |-> "malformed"]  \* text json.load rejects (JSONDecodeError)
JsonFile(data) == [kind |-> "json", data |-> data]
TopLevelArray == [kind |-> "json_array"]  \* valid JSON whose top level is a list

\* invoice_id=None
None == <<"None">>

Invoice(date, amount, description, invoice_id) ==
    [date |-> date, amount |-> amount, description |-> description, invoice_id |-> invoice_id]

\* the dict save_invoices builds (lines 86-99)
SaveData(invs, fed, st, code) ==
    [fed_tax_rate |-> JNum(fed),
     state_tax_rate |-> JNum(st),
     state_code |-> JStr(code),
     invoices |-> [i \in 1..Len(invs) |->
                      [date |-> JStr(isoformat(invs[i].date)),
                       amount |-> JNum(invs[i].amount),
                       description |-> JStr(invs[i].description),
                       invoice_id |-> JStr(invs[i].invoice_id)]]]

\* The outcomes of "with open(self.data_file, 'w') as f: json.dump(data, f)":
\*   ok      the file holds the document;
\*   denied  open() raises, the file is left as it was;
\*   partial the write raises after open() truncated the file.
\* In the last two the exception is caught and printed.
SaveOutcomes == {"ok", "denied", "partial"}

save_invoices(fs, path, invs, fed, st, code, outcome) ==
    CASE outcome = "ok" -> [fs EXCEPT ![path] = JsonFile(SaveData(invs, fed, st, code))]
      [] outcome = "denied" -> fs
      [] outcome = "partial" -> [fs EXCEPT ![path] = Malformed]

\* float(x) on a JSON string accepts a numeric literal
IsFloatLiteral(s) == IsIntLiteral(s)

\* The exception, if any, that the body of the loop at lines 64-74 raises for
\* one entry of the file's invoice list ("" when it raises none).
EntryError(e) ==
    IF "date" \notin DOMAIN e THEN "KeyError"
    ELSE IF ~IsJStr(e.date) THEN "AttributeError"
    ELSE LET parts == Split(e.date.str, "-") IN
         IF \E i \in 1..Len(parts) : ~IsIntLiteral(parts[i]) THEN "ValueError"
         ELSE IF Len(parts) < 3 THEN "IndexError"
         ELSE IF ~ValidDate(ParseInt(parts[1]), ParseInt(parts[2]), ParseInt(parts[3]))
              THEN "ValueError"
         ELSE IF "amount" \notin DOMAIN e THEN "KeyError"
         ELSE IF ~IsJNum(e.amount) /\ ~IsJStr(e.amount) THEN "TypeError"
         ELSE IF IsJStr(e.amount) /\ ~IsFloatLiteral(e.amount.str) THEN "ValueError"
         ELSE IF "description" \notin DOMAIN e THEN "KeyError"
         ELSE IF "invoice_id" \notin DOMAIN e THEN "KeyError"
         ELSE ""

\* the Invoice lines 66-74 build from an entry that raises nothing
EntryInvoice(e) ==
    LET parts == Split(e.date.str, "-") IN
    Invoice(MkDate(ParseInt(parts[1]), ParseInt(parts[2]), ParseInt(parts[3])),
            IF IsJNum(e.amount) THEN e.amount.num ELSE ParseInt(e.amount.str),
            PyValue(e.description),
            PyValue(e.invoice_id))

CaughtOnLoad == {"JSONDecodeError", "KeyError", "ValueError", "IndexError"}

\* load_invoices on file content f, from the fields invs, fed, st, code.
\* raised is the exception that leaves load_invoices ("" when none does).
load_invoices(f, invs, fed, st, code) ==
    IF f.kind = "absent"
    THEN [invoices |-> invs, fed_tax_rate |-> fed, state_tax_rate |-> st,
          state_code |-> code, raised |-> ""]
    ELSE IF f.kind = "malformed"
    THEN [invoices |-> <<>>, fed_tax_rate |-> fed, state_tax_rate |-> st,
          state_code |-> code, raised |-> ""]
    ELSE IF f.kind = "json_array"
    THEN \* line 63 empties the list, then data.get at line 64 raises
         [invoices |-> <<>>, fed_tax_rate |-> fed, state_tax_rate |-> st,
          state_code |-> code, raised |-> "AttributeError"]
    ELSE LET data == f.data
             list == IF "invoices" \in DOMAIN data THEN data.invoices ELSE <<>>
             bad == {i \in 1..Len(list) : EntryError(list[i]) # ""}
             first == CHOOSE i \in bad : \A j \in bad : i <= j
         IN  IF bad = {}
             THEN [invoices |-> [i \in 1..Len(list) |-> EntryInvoice(list[i])],
                   fed_tax_rate |-> IF "fed_tax_rate" \in DOMAIN data
                                    THEN PyValue(data.fed_tax_rate) ELSE fed,
                   state_tax_rate |-> IF "state_tax_rate" \in DOMAIN data
                                      THEN PyValue(data.state_tax_rate) ELSE st,
                   state_code |-> IF "state_code" \in DOMAIN data
                                  THEN PyValue(data.state_code) ELSE code,
                   raised |-> ""]
             ELSE IF EntryError(list[first]) \in CaughtOnLoad
             THEN [invoices |-> <<>>, fed_tax_rate |-> fed, state_tax_rate |-> st,
                   state_code |-> code, raised |-> ""]
             ELSE [invoices |-> [i \in 1..(first - 1) |-> EntryInvoice(list[i])],
                   fed_tax_rate |-> fed, state_tax_rate |-> st,
                   state_code |-> code, raised |-> EntryError(list[first])]

-----------------------------------------------------------------------------
(* Inputs *)

Paths == {"data/invoices.json", "backup/invoices.json"}

\* os.path.join(self.data_dir, "invoices.json") with data_dir="data"
DefaultPath == "data/invoices.json"

Q1End == MkDate(2024, 3, 31)
Q2Start == MkDate(2024, 4, 1)
PriorYearEnd == MkDate(2023, 12, 31)

Dates == {Q1End}                              \* dates of the persistence specification
Amounts == {100}
\* (date, amount) pairs of the query specification: the last day of a quarter,
\* the first day of the next, and a day of the year before
QueryArgs == {<<PriorYearEnd, 100>>, <<Q1End, 100>>, <<Q2Start, 250>>}
Years == {2023, 2024}                         \* a common year and a leap year
QuarterArgs == 0..5                           \* 1..4 and the two nearest invalid quarters
Descriptions == {"consulting"}
ExplicitIds == {<<"X">>}
IdArgs == ExplicitIds \cup {None}
AbsentId == <<"Z">>                            \* an id no invoice has

\* (fed_rate, state_rate) pairs, in percent, that callers pass: each rate just
\* outside the bounds while the other is valid, and both on the bounds
RateArgs == {<<0 - 1, 0>>, <<101, 0>>, <<0, 0 - 1>>, <<0, 101>>, <<0, 100>>, <<100, 0>>}
CodeArgs == {"NY"}

Config(fed, st, code) == [fed |-> fed, state |-> st, code |-> code]

\* __init__'s default rates, and rates a caller supplies instead
ConstructorArgs == {Config(DefaultFedRate, DefaultStateRate, ""), Config(150, 5, "TX")}

\* an entry of the file's invoice list, as save_invoices writes one
Entry(date, amount, description, invoice_id) ==
    [date |-> date, amount |-> amount, description |-> JStr(description),
     invoice_id |-> JStr(invoice_id)]

GoodEntry == Entry(JStr(Chars("2024-03-31")), JNum(100), "consulting", <<"X">>)

\* a well-formed first entry, then an entry whose amount is null; the file
\* sets the federal rate
NullAmountFile ==
    JsonFile([fed_tax_rate |-> JNum(30),
              invoices |-> <<GoodEntry,
                             Entry(JStr(Chars("2024-03-31")), JNull, "consulting", <<"Y">>)>>])

\* a well-formed first entry, then an entry whose date names no calendar
\* day; the file sets the three configuration fields
BadDateFile ==
    JsonFile([fed_tax_rate |-> JNum(30), state_tax_rate |-> JNum(7), state_code |-> JStr("CA"),
              invoices |-> <<GoodEntry,
                             Entry(JStr(Chars("2024-13-40")), JNum(100), "consulting", <<"Y">>)>>])

\* an entry without its amount field
MissingFieldFile ==
    JsonFile([invoices |-> <<[date |-> JStr(Chars("2024-03-31")),
                              description |-> JStr("consulting"),
                              invoice_id |-> JStr(<<"Y">>)]>>])

\* an entry whose amount is a string that is no number
TextAmountFile ==
    JsonFile([invoices |-> <<Entry(JStr(Chars("2024-03-31")), JStr(Chars("n/a")),
                                   "consulting", <<"Y">>)>>])

\* files that exist and hold a structural or parse error
BrokenFiles ==
    {Malformed, TopLevelArray, NullAmountFile, BadDateFile, MissingFieldFile, TextAmountFile}

\* what the backing file may hold before the Ledger is constructed
InitialFiles ==
    {NoFile,
     JsonFile([fed_tax_rate |-> JNum(150)]),
     JsonFile(SaveData(<<Invoice(Q1End, 100, "consulting", <<"X">>)>>, 30, 7, "CA"))}
    \cup BrokenFiles

-----------------------------------------------------------------------------
(* Construction *)

\* the local date of extract_from_pdf before any assignment to it
Unbound == [year |-> 0, month |-> 0, day |-> 0]

\* no call of extract_from_pdf has been made
NotExtracting ==
    [pc |-> "idle", pdf |-> [opens |-> FALSE, pages |-> <<>>], page |-> 0, invoices |-> <<>>,
     date |-> Unbound, log |-> <<>>, result |-> <<>>, raised |-> ""]

\* the "last call" record of an operation that returns (ok, message)
Outcome(op, args, ok, save) == [op |-> op, args |-> args, ok |-> ok, save |-> save, raised |-> ""]

\* __init__ (lines 40-54) on file system fs: the fields start at the arguments
\* and load_invoices overwrites them from the file.
Construct(fs, path, c) ==
    LET r == load_invoices(fs[path], <<>>, c.fed, c.state, c.code) IN
    /\ files = fs
    /\ data_file = path
    /\ invoices = r.invoices
    /\ fed_tax_rate = r.fed_tax_rate
    /\ state_tax_rate = r.state_tax_rate
    /\ state_code = r.state_code
    /\ last = [op |-> "init", args |-> c, ok |-> (r.raised = ""), save |-> "none",
               raised |-> r.raised]
    /\ faults = 0

Init ==
    /\ \E f \in InitialFiles, c \in ConstructorArgs :
          Construct([p \in Paths |-> IF p = DefaultPath THEN f ELSE NoFile], DefaultPath, c)
    /\ extract = NotExtracting

\* a Ledger exists unless its constructor raised
Alive == ~(last.op = "init" /\ last.raised # "")

\* a write may fail at most MaxFaults times
MayWrite(outcome) == outcome = "ok" \/ faults < MaxFaults

Faults(outcome) == IF outcome = "ok" THEN faults ELSE faults + 1

SaveResult(outcome) == IF outcome = "ok" THEN "ok" ELSE "failed"

\* the "last call" record of an operation that an exception left
Threw(op, args, exc) == [op |-> op, args |-> args, ok |-> FALSE, save |-> "none", raised |-> exc]

\* the argument is a datetime.date, which has strftime and isoformat
IsDate(d) == DOMAIN d = {"year", "month", "day"}

\* a date argument that is no datetime.date: the str "2024-03-31"
TextDate == [text |-> Chars("2024-03-31")]

\* inv.date.isoformat() (line 92) raises for none of the invoices; the
\* comprehension of lines 90-98 is outside the try of save_invoices
Serializable(invs) == \A i \in 1..Len(invs) : IsDate(invs[i].date)

-----------------------------------------------------------------------------
(* Mutating operations *)

\* the id numbered from one instead of from the current count
GeneratedId_onebased(date, n) ==
    <<"I", "N", "V", "-">> \o strftime_Ymd(date) \o <<"-">> \o Pad(n + 1, 4)

\* the id line 123 generates
GeneratedId(date, n) == <<"I", "N", "V", "-">> \o strftime_Ymd(date) \o <<"-">> \o Pad(n, 4)

\* add_invoice taking the appended invoice back when the write fails
add_invoice_rollback(date, amount, description, invoice_id, outcome, max) ==
    LET id == IF invoice_id = None THEN GeneratedId(date, Len(invoices)) ELSE invoice_id
        invoice == Invoice(date, amount, description, id)
    IN  /\ Alive
        /\ Len(invoices) < max
        /\ MayWrite(outcome)
        /\ invoices' = IF outcome = "ok" THEN Append(invoices, invoice) ELSE invoices
        /\ files' = save_invoices(files, data_file, Append(invoices, invoice), fed_tax_rate,
                                  state_tax_rate, state_code, outcome)
        /\ faults' = Faults(outcome)
        /\ last' = Outcome("add", [date |-> date, invoice_id |-> invoice_id], TRUE,
                           SaveResult(outcome))
        /\ UNCHANGED <<fed_tax_rate, state_tax_rate, state_code, data_file, extract>>

\* add_invoice (lines 107-138); outcome is what the write of save_invoices
\* does.  With a date that is no datetime.date, line 123 raises when the id
\* is to be generated, before the append; with an explicit id the first
\* statement to raise is line 92 of save_invoices, after the append of line
\* 133.  The handler of line 137 returns (False, message) for both.
add_invoice(date, amount, description, invoice_id, outcome, max) ==
    LET id == IF invoice_id = None THEN GeneratedId(date, Len(invoices)) ELSE invoice_id
        invoice == Invoice(date, amount, description, id)
    IN  /\ Alive
        /\ Len(invoices) < max
        /\ MayWrite(outcome)
        /\ IF invoice_id = None /\ ~IsDate(date)
           THEN /\ outcome = "ok"
                /\ last' = Outcome("add", [date |-> date, invoice_id |-> invoice_id],
                                   FALSE, "none")
                /\ UNCHANGED <<invoices, files, faults>>
           ELSE IF ~Serializable(Append(invoices, invoice))
           THEN /\ outcome = "ok"
                /\ invoices' = Append(invoices, invoice)
                /\ last' = Outcome("add", [date |-> date, invoice_id |-> invoice_id],
                                   FALSE, "none")
                /\ UNCHANGED <<files, faults>>
           ELSE /\ invoices' = Append(invoices, invoice)
                /\ files' = save_invoices(files, data_file, invoices', fed_tax_rate,
                                          state_tax_rate, state_code, outcome)
                /\ faults' = Faults(outcome)
                /\ last' = Outcome("add", [date |-> date, invoice_id |-> invoice_id],
                                   TRUE, SaveResult(outcome))
        /\ UNCHANGED <<fed_tax_rate, state_tax_rate, state_code, data_file, extract>>

\* the index of the last invoice with the id instead of the first
FirstMatch_last(invs, invoice_id) ==
    IF \E i \in 1..Len(invs) : invs[i].invoice_id = invoice_id
    THEN CHOOSE i \in 1..Len(invs) :
            /\ invs[i].invoice_id = invoice_id
            /\ \A j \in (i + 1)..Len(invs) : invs[j].invoice_id # invoice_id
    ELSE 0

\* FirstMatch falling back to the first invoice when no id matches
FirstMatch_fallback(invs, invoice_id) ==
    IF \E i \in 1..Len(invs) : invs[i].invoice_id = invoice_id
    THEN CHOOSE i \in 1..Len(invs) :
            /\ invs[i].invoice_id = invoice_id
            /\ \A j \in 1..(i - 1) : invs[j].invoice_id # invoice_id
    ELSE IF Len(invs) > 0 THEN 1 ELSE 0

\* the index the loop at lines 150-151 stops at (0 when no id matches)
FirstMatch(invs, invoice_id) ==
    IF \E i \in 1..Len(invs) : invs[i].invoice_id = invoice_id
    THEN CHOOSE i \in 1..Len(invs) :
            /\ invs[i].invoice_id = invoice_id
            /\ \A j \in 1..(i - 1) : invs[j].invoice_id # invoice_id
    ELSE 0

\* del self.invoices[i]
DelAt(invs, i) == SubSeq(invs, 1, i - 1) \o SubSeq(invs, i + 1, Len(invs))

\* delete_invoice (lines 140-156); an exception of line 92 of save_invoices
\* leaves the call, no handler being there
delete_invoice(invoice_id, outcome) ==
    LET i == FirstMatch(invoices, invoice_id) IN
    /\ Alive
    /\ IF i # 0 /\ ~Serializable(DelAt(invoices, i))
       THEN /\ outcome = "ok"
            /\ invoices' = DelAt(invoices, i)
            /\ last' = Threw("delete", [invoice_id |-> invoice_id], "AttributeError")
            /\ UNCHANGED <<files, faults>>
       ELSE IF i # 0
       THEN /\ MayWrite(outcome)
            /\ invoices' = DelAt(invoices, i)
            /\ files' = save_invoices(files, data_file, invoices', fed_tax_rate,
                                      state_tax_rate, state_code, outcome)
            /\ faults' = Faults(outcome)
            /\ last' = Outcome("delete", [invoice_id |-> invoice_id], TRUE,
                               SaveResult(outcome))
       ELSE /\ outcome = "ok"
            /\ last' = Outcome("delete", [invoice_id |-> invoice_id], FALSE, "none")
            /\ UNCHANGED <<invoices, files, faults>>
    /\ UNCHANGED <<fed_tax_rate, state_tax_rate, state_code, data_file, extract>>

\* the condition of line 301 without the test of the state rate
RatesValid_fed_only(fed_rate, state_rate) ==
    RateZero <= fed_rate /\ fed_rate <= RateOne

\* the condition of line 301
RatesValid(fed_rate, state_rate) ==
    /\ RateZero <= fed_rate /\ fed_rate <= RateOne
    /\ RateZero <= state_rate /\ state_rate <= RateOne

\* set_tax_rates (lines 289-308); an exception of line 92 of save_invoices
\* leaves the call, after the three assignments
set_tax_rates(fed_rate, state_rate, code, outcome) ==
    /\ Alive
    /\ IF RatesValid(fed_rate, state_rate) /\ ~Serializable(invoices)
       THEN /\ outcome = "ok"
            /\ fed_tax_rate' = fed_rate
            /\ state_tax_rate' = state_rate
            /\ state_code' = code
            /\ last' = Threw("set_tax_rates",
                             [fed_rate |-> fed_rate, state_rate |-> state_rate,
                              state_code |-> code], "AttributeError")
            /\ UNCHANGED <<files, faults>>
       ELSE IF RatesValid(fed_rate, state_rate)
       THEN /\ MayWrite(outcome)
            /\ fed_tax_rate' = fed_rate
            /\ state_tax_rate' = state_rate
            /\ state_code' = code
            /\ files' = save_invoices(files, data_file, invoices, fed_tax_rate',
                                      state_tax_rate', state_code', outcome)
            /\ faults' = Faults(outcome)
            /\ last' = Outcome("set_tax_rates",
                               [fed_rate |-> fed_rate, state_rate |-> state_rate,
                                state_code |-> code], TRUE, SaveResult(outcome))
       ELSE /\ outcome = "ok"
            /\ last' = Outcome("set_tax_rates",
                               [fed_rate |-> fed_rate, state_rate |-> state_rate,
                                state_code |-> code], FALSE, "none")
            /\ UNCHANGED <<fed_tax_rate, state_tax_rate, state_code, files, faults>>
    /\ UNCHANGED <<invoices, data_file, extract>>

\* change_data_location (lines 375-394): save_invoices catches a failed write
\* itself, so the except branch that restores the path is not taken for one.
\* It is taken for an exception of line 92 of save_invoices.
change_data_location(new_location, outcome) ==
    /\ Alive
    /\ MayWrite(outcome)
    /\ IF ~Serializable(invoices)
       THEN /\ outcome = "ok"
            /\ last' = Outcome("change_data_location",
                               [new_location |-> new_location, old |-> data_file], FALSE,
                               "none")
            /\ UNCHANGED <<data_file, files, faults>>
       ELSE /\ data_file' = new_location
            /\ files' = save_invoices(files, data_file', invoices, fed_tax_rate,
                                      state_tax_rate, state_code, outcome)
            /\ faults' = Faults(outcome)
            /\ last' = Outcome("change_data_location",
                               [new_location |-> new_location, old |-> data_file], TRUE,
                               SaveResult(outcome))
    /\ UNCHANGED <<invoices, fed_tax_rate, state_tax_rate, state_code, extract>>

\* A fresh BusinessTaxCalculator on the same backing file (__init__, lines
\* 40-54, with data_file=self.data_file): the process is started again.
Reopen(c) ==
    LET r == load_invoices(files[data_file], <<>>, c.fed, c.state, c.code) IN
    /\ Alive
    /\ invoices' = r.invoices
    /\ fed_tax_rate' = r.fed_tax_rate
    /\ state_tax_rate' = r.state_tax_rate
    /\ state_code' = r.state_code
    /\ last' = [op |-> "init", args |-> c, ok |-> (r.raised = ""), save |-> "none",
                raised |-> r.raised]
    /\ UNCHANGED <<data_file, files, faults, extract>>

-----------------------------------------------------------------------------
(* The persistence specification: the Ledger and its backing file *)

\* the ids delete_invoice is called with: every id in the list, and one not in it
DeleteArgs == {invoices[i].invoice_id : i \in 1..Len(invoices)} \cup {AbsentId}

Next ==
    \/ \E d \in Dates, a \in Amounts, ds \in Descriptions, id \in IdArgs, w \in SaveOutcomes :
          add_invoice(d, a, ds, id, w, MaxInvoices)
    \/ \E id \in DeleteArgs, w \in SaveOutcomes : delete_invoice(id, w)
    \/ \E r \in RateArgs, c \in CodeArgs, w \in SaveOutcomes :
          set_tax_rates(r[1], r[2], c, w)
    \/ \E c \in ConstructorArgs : Reopen(c)

Spec == Init /\ [][Next]_vars

-----------------------------------------------------------------------------
(* The relocation specification: the Ledger moved between two paths, on    *)
(* smaller inputs (one date, generated ids, the default constructor).      *)

MaxMoveInvoices == 1  \* the relocation specification holds at most this many invoices

InitMove ==
    /\ Construct([p \in Paths |-> NoFile], DefaultPath,
                 Config(DefaultFedRate, DefaultStateRate, ""))
    /\ extract = NotExtracting

NextMove ==
    \/ \E w \in SaveOutcomes : add_invoice(Q1End, 100, "consulting", None, w, MaxMoveInvoices)
    \/ \E id \in DeleteArgs, w \in SaveOutcomes : delete_invoice(id, w)
    \/ \E f \in {0, 101}, w \in SaveOutcomes : set_tax_rates(f, 0, "NY", w)
    \/ \E p \in Paths, w \in SaveOutcomes : change_data_location(p, w)
    \/ Reopen(Config(DefaultFedRate, DefaultStateRate, ""))

SpecMove == InitMove /\ [][NextMove]_vars

-----------------------------------------------------------------------------
(* The argument specification: the mutating operations called with a date  *)
(* that is a datetime.date or a str, every write succeeding.               *)

MaxAddInvoices == 2   \* the argument specification holds at most this many invoices

DateArgs == {Q1End, TextDate}

InitAdd ==
    /\ Construct([p \in Paths |-> NoFile], DefaultPath,
                 Config(DefaultFedRate, DefaultStateRate, ""))
    /\ extract = NotExtracting

NextAdd ==
    \/ \E d \in DateArgs, id \in IdArgs :
          add_invoice(d, 100, "consulting", id, "ok", MaxAddInvoices)
    \/ \E id \in DeleteArgs : delete_invoice(id, "ok")
    \/ \E f \in {0, 101} : set_tax_rates(f, 0, "NY", "ok")
    \/ \E p \in Paths : change_data_location(p, "ok")

SpecAdd == InitAdd /\ [][NextAdd]_vars

-----------------------------------------------------------------------------
(* Read-only operations *)

\* the "last call" record of an operation that returns a value or raises
Returned(op, args, value) ==
    [op |-> op, args |-> args, ok |-> TRUE, save |-> "none", raised |-> "", value |-> value]

Raised(op, args, exc) ==
    [op |-> op, args |-> args, ok |-> FALSE, save |-> "none", raised |-> exc]

\* get_quarter_bounds taking the last day from the quarter's first month
get_quarter_bounds_startlen(year, quarter) ==
    LET start_month == (quarter - 1) * 3 + 1
        end_month == quarter * 3
        last_day == DaysInMonth(year, start_month)
    IN  <<MkDate(year, start_month, 1), MkDate(year, end_month, last_day)>>

\* get_quarter_bounds (lines 158-179); defined for quarter in 1..4, where the
\* code does not raise
get_quarter_bounds(year, quarter) ==
    LET start_month == (quarter - 1) * 3 + 1
        end_month == quarter * 3
        last_day == DaysInMonth(year, end_month)
    IN  <<MkDate(year, start_month, 1), MkDate(year, end_month, last_day)>>

RECURSIVE SumFrom(_, _, _, _, _)
\* the loop of lines 194-197 (and 214-217) from index i on, with the total so
\* far in total
SumFrom(invs, i, start_date, end_date, total) ==
    IF i > Len(invs) THEN total
    ELSE SumFrom(invs, i + 1, start_date, end_date,
                 IF DateLE(start_date, invs[i].date) /\ DateLE(invs[i].date, end_date)
                 THEN total + invs[i].amount ELSE total)

\* get_quarterly_earnings (lines 181-199), for quarter in 1..4
get_quarterly_earnings(invs, year, quarter) ==
    LET bounds == get_quarter_bounds(year, quarter)
    IN  SumFrom(invs, 1, bounds[1], bounds[2], 0)

RECURSIVE InsertByDate_before(_, _)
\* inv placed before the elements of equal date: a sort that is not stable
InsertByDate_before(s, inv) ==
    IF Len(s) = 0 THEN <<inv>>
    ELSE IF DateLE(s[Len(s)].date, inv.date) /\ s[Len(s)].date # inv.date THEN Append(s, inv)
    ELSE Append(InsertByDate_before(SubSeq(s, 1, Len(s) - 1), inv), s[Len(s)])

RECURSIVE InsertByDate(_, _)
\* inv placed after every element of the sorted list s whose date is <= its own
InsertByDate(s, inv) ==
    IF Len(s) = 0 THEN <<inv>>
    ELSE IF DateLE(s[Len(s)].date, inv.date) THEN Append(s, inv)
    ELSE Append(InsertByDate(SubSeq(s, 1, Len(s) - 1), inv), s[Len(s)])

RECURSIVE SortedByDate(_)
\* sorted(invs, key=lambda x: x.date): Python's sort is stable
SortedByDate(invs) ==
    IF Len(invs) = 0 THEN <<>>
    ELSE InsertByDate(SortedByDate(SubSeq(invs, 1, Len(invs) - 1)), invs[Len(invs)])

\* get_all_invoices (lines 280-287)
get_all_invoices(invs) == SortedByDate(invs)

Ledger == <<invoices, fed_tax_rate, state_tax_rate, state_code, data_file, files, faults>>

\* the condition of line 169 without the test of the lower bound
InvalidQuarter_upper_only(quarter) == quarter > 4

\* the condition of line 169, on which get_quarter_bounds raises ValueError
InvalidQuarter(quarter) == quarter < 1 \/ quarter > 4

Call_get_quarter_bounds(year, quarter) ==
    /\ Alive
    /\ last' = IF InvalidQuarter(quarter)
               THEN Raised("get_quarter_bounds", [year |-> year, quarter |-> quarter],
                           "ValueError")
               ELSE Returned("get_quarter_bounds", [year |-> year, quarter |-> quarter],
                             get_quarter_bounds(year, quarter))
    /\ UNCHANGED <<Ledger, extract>>

Call_get_quarterly_earnings(year, quarter) ==
    /\ Alive
    /\ last' = IF InvalidQuarter(quarter)
               THEN Raised("get_quarterly_earnings", [year |-> year, quarter |-> quarter],
                           "ValueError")
               ELSE Returned("get_quarterly_earnings", [year |-> year, quarter |-> quarter],
                             get_quarterly_earnings(invoices, year, quarter))
    /\ UNCHANGED <<Ledger, extract>>

Call_get_all_invoices ==
    /\ Alive
    /\ last' = Returned("get_all_invoices", <<>>, get_all_invoices(invoices))
    /\ UNCHANGED <<Ledger, extract>>

-----------------------------------------------------------------------------
(* The query specification: the Ledger's list under add and delete with    *)
(* every write succeeding, on more dates and amounts, and the read-only    *)
(* operations on it.                                                       *)

InitQuery ==
    /\ Construct([p \in Paths |-> NoFile], DefaultPath,
                 Config(DefaultFedRate, DefaultStateRate, ""))
    /\ extract = NotExtracting

NextQuery ==
    \/ \E da \in QueryArgs, ds \in Descriptions, id \in IdArgs :
          add_invoice(da[1], da[2], ds, id, "ok", MaxQueryInvoices)
    \/ \E id \in DeleteArgs : delete_invoice(id, "ok")
    \/ \E y \in Years, q \in QuarterArgs : Call_get_quarter_bounds(y, q)
    \/ \E y \in Years, q \in QuarterArgs : Call_get_quarterly_earnings(y, q)
    \/ Call_get_all_invoices

SpecQuery == InitQuery /\ [][NextQuery]_vars

-----------------------------------------------------------------------------
(* Taxes, the SEP limit and the quarterly report.  A product of an amount  *)
(* and a rate (a tax, a contribution) is a whole number of hundredths of   *)
(* a currency unit, since a rate is a whole number of percent.             *)

SepEffectiveRate == 20         \* effective_rate = 0.20, in percent
SepMaxContribution == 69000    \* max_contribution_limit = 69000, in currency units

\* x currency units in hundredths
Hundredths(x) == 100 * x

Min(a, b) == IF a <= b THEN a ELSE b

RECURSIVE GCD(_, _)
GCD(a, b) == IF b = 0 THEN a ELSE GCD(b, a % b)

\* the quotient n / d of a division that need not be whole, in lowest terms
Fraction(n, d) == [num |-> n \div GCD(n, d), den |-> d \div GCD(n, d)]

\* get_yearly_earnings (lines 201-219)
get_yearly_earnings(invs, year) ==
    SumFrom(invs, 1, MkDate(year, 1, 1), MkDate(year, 12, 31), 0)

\* calculate_quarterly_federal_tax (lines 221-233), for quarter in 1..4
calculate_quarterly_federal_tax(invs, fed, year, quarter) ==
    get_quarterly_earnings(invs, year, quarter) * fed

\* calculate_quarterly_state_tax (lines 235-247), for quarter in 1..4
calculate_quarterly_state_tax(invs, st, year, quarter) ==
    get_quarterly_earnings(invs, year, quarter) * st

\* calculate_sep_401k_limit without the ceiling
calculate_sep_401k_limit_uncapped(invs, year) ==
    LET yearly_earnings == get_yearly_earnings(invs, year)
        potential_contribution == yearly_earnings * SepEffectiveRate
        actual_contribution == potential_contribution
    IN  [yearly_earnings |-> yearly_earnings,
         potential_contribution |-> potential_contribution,
         actual_contribution |-> actual_contribution,
         max_contribution_limit |-> SepMaxContribution,
         contribution_percent |->
            IF yearly_earnings = 0 THEN Fraction(0, 1)
            ELSE Fraction(actual_contribution, yearly_earnings)]

\* calculate_sep_401k_limit (lines 249-278).  The two contributions are in
\* hundredths; contribution_percent is the fraction num/den in lowest terms,
\* which is actual_contribution / yearly_earnings * 100 with the contribution
\* in currency units.
calculate_sep_401k_limit(invs, year) ==
    LET yearly_earnings == get_yearly_earnings(invs, year)
        potential_contribution == yearly_earnings * SepEffectiveRate
        actual_contribution == Min(potential_contribution, Hundredths(SepMaxContribution))
    IN  [yearly_earnings |-> yearly_earnings,
         potential_contribution |-> potential_contribution,
         actual_contribution |-> actual_contribution,
         max_contribution_limit |-> SepMaxContribution,
         contribution_percent |->
            IF yearly_earnings = 0 THEN Fraction(0, 1)
            ELSE Fraction(actual_contribution, yearly_earnings)]

\* the entry of one quarter with the federal tax alone as the total
QuarterEntry_total_fed_only(invs, fed, st, year, q) ==
    LET earnings == get_quarterly_earnings(invs, year, q)
        fed_tax == calculate_quarterly_federal_tax(invs, fed, year, q)
        state_tax == calculate_quarterly_state_tax(invs, st, year, q)
        bounds == get_quarter_bounds(year, q)
        in_quarter == {i \in 1..Len(invs) :
                          DateLE(bounds[1], invs[i].date) /\ DateLE(invs[i].date, bounds[2])}
    IN  [earnings |-> earnings, fed_tax |-> fed_tax, state_tax |-> state_tax,
         total_tax |-> fed_tax, invoice_count |-> Cardinality(in_quarter)]

\* the entry of one quarter (lines 353-367), for q in 1..4
QuarterEntry(invs, fed, st, year, q) ==
    LET earnings == get_quarterly_earnings(invs, year, q)
        fed_tax == calculate_quarterly_federal_tax(invs, fed, year, q)
        state_tax == calculate_quarterly_state_tax(invs, st, year, q)
        bounds == get_quarter_bounds(year, q)
        in_quarter == {i \in 1..Len(invs) :
                          DateLE(bounds[1], invs[i].date) /\ DateLE(invs[i].date, bounds[2])}
    IN  [earnings |-> earnings, fed_tax |-> fed_tax, state_tax |-> state_tax,
         total_tax |-> fed_tax + state_tax, invoice_count |-> Cardinality(in_quarter)]

\* quarter=None of generate_quarterly_report: an optional quarter is <<>> or <<q>>
NoQuarter == <<>>

\* generate_quarterly_report (lines 332-373), for no quarter or one in 1..4
generate_quarterly_report(invs, fed, st, year, quarter) ==
    LET quarters == IF quarter # NoQuarter THEN {quarter[1]} ELSE {1, 2, 3, 4}
        entries == [q \in quarters |-> QuarterEntry(invs, fed, st, year, q)]
    IN  IF quarter = NoQuarter
        THEN [year |-> year, quarters |-> entries,
              sep_401k |-> calculate_sep_401k_limit(invs, year)]
        ELSE [year |-> year, quarters |-> entries]

Call_get_yearly_earnings(year) ==
    /\ Alive
    /\ last' = Returned("get_yearly_earnings", [year |-> year],
                        get_yearly_earnings(invoices, year))
    /\ UNCHANGED <<Ledger, extract>>

Call_calculate_quarterly_federal_tax(year, quarter) ==
    /\ Alive
    /\ last' = IF InvalidQuarter(quarter)
               THEN Raised("calculate_quarterly_federal_tax",
                           [year |-> year, quarter |-> quarter], "ValueError")
               ELSE Returned("calculate_quarterly_federal_tax",
                             [year |-> year, quarter |-> quarter],
                             calculate_quarterly_federal_tax(invoices, fed_tax_rate,
                                                             year, quarter))
    /\ UNCHANGED <<Ledger, extract>>

Call_calculate_quarterly_state_tax(year, quarter) ==
    /\ Alive
    /\ last' = IF InvalidQuarter(quarter)
               THEN Raised("calculate_quarterly_state_tax",
                           [year |-> year, quarter |-> quarter], "ValueError")
               ELSE Returned("calculate_quarterly_state_tax",
                             [year |-> year, quarter |-> quarter],
                             calculate_quarterly_state_tax(invoices, state_tax_rate,
                                                           year, quarter))
    /\ UNCHANGED <<Ledger, extract>>

Call_calculate_sep_401k_limit(year) ==
    /\ Alive
    /\ last' = Returned("calculate_sep_401k_limit", [year |-> year],
                        calculate_sep_401k_limit(invoices, year))
    /\ UNCHANGED <<Ledger, extract>>

\* the ValueError of get_quarter_bounds (reached through get_quarterly_earnings,
\* line 354) leaves generate_quarterly_report: nothing on the way catches it
Call_generate_quarterly_report(year, quarter) ==
    /\ Alive
    /\ last' = IF quarter # NoQuarter /\ InvalidQuarter(quarter[1])
               THEN Raised("generate_quarterly_report",
                           [year |-> year, quarter |-> quarter], "ValueError")
               ELSE Returned("generate_quarterly_report",
                             [year |-> year, quarter |-> quarter],
                             generate_quarterly_report(invoices, fed_tax_rate,
                                                       state_tax_rate, year, quarter))
    /\ UNCHANGED <<Ledger, extract>>

-----------------------------------------------------------------------------
(* The report specification: invoices with large amounts in two years, and *)
(* the tax, SEP and report operations on them.                             *)

MaxReportInvoices == 2  \* the report specification holds at most this many invoices

\* (date, amount) pairs: a small amount in the year before, and in 2024 the
\* amount whose 20% is the SEP ceiling and one whose 20% is above it
ReportArgs == {<<PriorYearEnd, 100>>, <<Q1End, 345000>>, <<Q2Start, 500000>>}

\* the optional quarter of generate_quarterly_report: none, or one of QuarterArgs
OptionalQuarterArgs == {NoQuarter} \cup {<<q>> : q \in QuarterArgs}

InitReport ==
    /\ Construct([p \in Paths |-> NoFile], DefaultPath,
                 Config(DefaultFedRate, DefaultStateRate, ""))
    /\ extract = NotExtracting

NextReport ==
    \/ \E da \in ReportArgs :
          add_invoice(da[1], da[2], "consulting", None, "ok", MaxReportInvoices)
    \/ \E id \in DeleteArgs : delete_invoice(id, "ok")
    \/ \E y \in Years, q \in QuarterArgs : Call_get_quarter_bounds(y, q)
    \/ \E y \in Years, q \in QuarterArgs : Call_get_quarterly_earnings(y, q)
    \/ \E y \in Years : Call_get_yearly_earnings(y)
    \/ \E y \in Years, q \in QuarterArgs : Call_calculate_quarterly_federal_tax(y, q)
    \/ \E y \in Years, q \in QuarterArgs : Call_calculate_quarterly_state_tax(y, q)
    \/ \E y \in Years : Call_calculate_sep_401k_limit(y)
    \/ \E y \in Years, q \in OptionalQuarterArgs : Call_generate_quarterly_report(y, q)

SpecReport == InitReport /\ [][NextReport]_vars

-----------------------------------------------------------------------------
(* export_to_csv, and the frame specification: a Ledger constructed on a   *)
(* file of two invoices that share an id and are stored out of date order, *)
(* under delete and the operations that only read it.                      *)

\* the rows lines 321-325 write: the header, then the invoices by date
CsvRows(invs) ==
    <<<<"Invoice ID", "Date", "Amount", "Description">>>>
    \o [i \in 1..Len(invs) |->
           <<SortedByDate(invs)[i].invoice_id, isoformat(SortedByDate(invs)[i].date),
             SortedByDate(invs)[i].amount, SortedByDate(invs)[i].description>>]

\* a file of CSV rows (none: the file was truncated and nothing written);
\* json.load rejects it as it rejects Malformed
CsvFile(rows) == [kind |-> "malformed", rows |-> rows]

\* the file system after "with open(filename, 'w', newline='') as csvfile"
\* and the writes of lines 320-325, for the outcomes of SaveOutcomes
WriteCsv(fs, filename, rows, outcome) ==
    [p \in DOMAIN fs \cup {filename} |->
        IF p # filename THEN fs[p]
        ELSE IF outcome = "ok" THEN CsvFile(rows)
        ELSE IF outcome = "partial" THEN CsvFile(<<>>)
        ELSE IF p \in DOMAIN fs THEN fs[p] ELSE NoFile]

\* export_to_csv sorting the stored list in place: self.invoices.sort(...)
export_to_csv_sorting_in_place(filename, outcome) ==
    /\ Alive
    /\ MayWrite(outcome)
    /\ invoices' = SortedByDate(invoices)
    /\ files' = WriteCsv(files, filename, CsvRows(invoices), outcome)
    /\ faults' = Faults(outcome)
    /\ last' = Outcome("export_to_csv", [filename |-> filename], outcome = "ok", "none")
    /\ UNCHANGED <<fed_tax_rate, state_tax_rate, state_code, data_file, extract>>

\* export_to_csv (lines 310-330): an exception of open or of a write is
\* caught and the call returns (False, message)
export_to_csv(filename, outcome) ==
    /\ Alive
    /\ MayWrite(outcome)
    /\ files' = WriteCsv(files, filename, CsvRows(invoices), outcome)
    /\ faults' = Faults(outcome)
    /\ last' = Outcome("export_to_csv", [filename |-> filename], outcome = "ok", "none")
    /\ UNCHANGED <<invoices, fed_tax_rate, state_tax_rate, state_code, data_file, extract>>

\* the file the Ledger of the frame specification is constructed on
TwoInvoicesFile ==
    JsonFile(SaveData(<<Invoice(Q2Start, 250, "consulting", <<"X">>),
                        Invoice(Q1End, 100, "consulting", <<"X">>)>>, 30, 7, "CA"))

\* the file names export_to_csv is called with: a file of its own, and the
\* backing file
ExportArgs == {"exports/invoices.csv", DefaultPath}

InitFrame ==
    /\ Construct([p \in Paths |-> IF p = DefaultPath THEN TwoInvoicesFile ELSE NoFile],
                 DefaultPath, Config(DefaultFedRate, DefaultStateRate, ""))
    /\ extract = NotExtracting

NextFrame ==
    \/ \E id \in DeleteArgs : delete_invoice(id, "ok")
    \/ Call_get_all_invoices
    \/ \E y \in Years, q \in QuarterArgs : Call_get_quarter_bounds(y, q)
    \/ \E y \in Years, q \in QuarterArgs : Call_get_quarterly_earnings(y, q)
    \/ \E y \in Years : Call_get_yearly_earnings(y)
    \/ \E y \in Years, q \in QuarterArgs : Call_calculate_quarterly_federal_tax(y, q)
    \/ \E y \in Years, q \in QuarterArgs : Call_calculate_quarterly_state_tax(y, q)
    \/ \E y \in Years : Call_calculate_sep_401k_limit(y)
    \/ \E y \in Years, q \in OptionalQuarterArgs : Call_generate_quarterly_report(y, q)
    \/ \E f \in ExportArgs, w \in SaveOutcomes : export_to_csv(f, w)

SpecFrame == InitFrame /\ [][NextFrame]_vars

-----------------------------------------------------------------------------
(* Earnings of amounts that are not whole numbers.  An amount is a Python  *)
(* float, an IEEE 754 binary64 number; the specifications above keep to    *)
(* whole amounts, whose sums are exact.  Here a positive float is its 53   *)
(* significant bits, most significant first, and the exponent e of the    *)
(* last of them: the number is bits * 2^e.  total += inv.amount (lines 197 *)
(* and 217) rounds to nearest, ties to even.                               *)

\* 0.0
FloatZero == [bits |-> <<>>, e |-> 0]

Zeros(n) == [i \in 1..n |-> 0]

RECURSIVE StripZeros(_)
\* the bits without leading zeros
StripZeros(bits) ==
    IF bits # <<>> /\ bits[1] = 0 THEN StripZeros(Tail(bits)) ELSE bits

RECURSIVE AddBits(_, _, _, _, _)
\* the sum of the binary numerals a and b of equal length: the bits from
\* position i down are still to add, carry is carried and acc the sum so far
AddBits(a, b, i, carry, acc) ==
    IF i = 0 THEN (IF carry = 1 THEN <<1>> \o acc ELSE acc)
    ELSE AddBits(a, b, i - 1, (a[i] + b[i] + carry) \div 2,
                 <<(a[i] + b[i] + carry) % 2>> \o acc)

\* the numeral bits * 2^e, bits having a leading 1, rounded to 53 significant
\* bits: to nearest, a tie to the even one
RoundToFloat(bits, e) ==
    IF Len(bits) <= 53
    THEN [bits |-> bits \o Zeros(53 - Len(bits)), e |-> e - (53 - Len(bits))]
    ELSE IF /\ bits[54] = 1
            /\ \/ bits[53] = 1
               \/ \E j \in 55..Len(bits) : bits[j] = 1
    THEN [bits |-> SubSeq(AddBits(SubSeq(bits, 1, 53), Zeros(52) \o <<1>>, 53, 0, <<>>),
                          1, 53),
          e |-> e + (Len(bits) - 53)
                + (IF \A j \in 1..53 : bits[j] = 1 THEN 1 ELSE 0)]
    ELSE [bits |-> SubSeq(bits, 1, 53), e |-> e + (Len(bits) - 53)]

\* the numerals of a and b brought to the exponent e and to n bits, added
AddAligned(a, b, e, n) ==
    AddBits(Zeros(n - Len(a.bits) - (a.e - e)) \o a.bits \o Zeros(a.e - e),
            Zeros(n - Len(b.bits) - (b.e - e)) \o b.bits \o Zeros(b.e - e),
            n, 0, <<>>)

\* a + b of two floats that are not negative
float_add(a, b) ==
    IF a = FloatZero THEN b
    ELSE IF b = FloatZero THEN a
    ELSE RoundToFloat(AddAligned(a, b, Min(a.e, b.e),
                                 53 + (IF a.e > b.e THEN a.e - b.e ELSE b.e - a.e)),
                      Min(a.e, b.e))

\* the four bits of a hexadecimal digit
HexDigit(c) ==
    LET n == CHOOSE k \in 0..15 : Chars("0123456789abcdef")[k + 1] = c
    IN  <<(n \div 8) % 2, (n \div 4) % 2, (n \div 2) % 2, n % 2>>

RECURSIVE HexBits(_)
HexBits(s) == IF s = <<>> THEN <<>> ELSE HexDigit(s[1]) \o HexBits(Tail(s))

\* float.fromhex("0x1.<fraction>p<exponent>"), fraction of 13 digits
FromHex(fraction, exponent) ==
    [bits |-> <<1>> \o HexBits(fraction), e |-> exponent - 52]

RECURSIVE SumFloatsFrom(_, _, _, _, _)
\* the loop of lines 195-197 and 215-217 from invoice i on, total being the
\* float accumulated so far
SumFloatsFrom(invs, i, start_date, end_date, total) ==
    IF i > Len(invs) THEN total
    ELSE SumFloatsFrom(invs, i + 1, start_date, end_date,
                       IF DateLE(start_date, invs[i].date) /\ DateLE(invs[i].date, end_date)
                       THEN float_add(total, invs[i].amount) ELSE total)

\* get_quarterly_earnings (lines 181-199) on float amounts, for quarter in 1..4
float_quarterly_earnings(invs, year, quarter) ==
    SumFloatsFrom(invs, 1, get_quarter_bounds(year, quarter)[1],
                  get_quarter_bounds(year, quarter)[2], FloatZero)

\* get_yearly_earnings (lines 201-219) on float amounts
float_yearly_earnings(invs, year) ==
    SumFloatsFrom(invs, 1, MkDate(year, 1, 1), MkDate(year, 12, 31), FloatZero)

\* self.get_quarterly_earnings(year, quarter) on float amounts
Call_float_quarterly_earnings(year, quarter) ==
    /\ Alive
    /\ last' = IF InvalidQuarter(quarter)
               THEN Raised("get_quarterly_earnings", [year |-> year, quarter |-> quarter],
                           "ValueError")
               ELSE Returned("get_quarterly_earnings", [year |-> year, quarter |-> quarter],
                             float_quarterly_earnings(invoices, year, quarter))
    /\ UNCHANGED <<Ledger, extract>>

\* self.get_yearly_earnings(year) on float amounts
Call_float_yearly_earnings(year) ==
    /\ Alive
    /\ last' = Returned("get_yearly_earnings", [year |-> year],
                        float_yearly_earnings(invoices, year))
    /\ UNCHANGED <<Ledger, extract>>

MaxFloatInvoices == 3  \* the float specification holds at most this many invoices

\* 0.1, 0.2 and 0.3 as float.hex() gives them: 0x1.999999999999ap-4,
\* 0x1.999999999999ap-3 and 0x1.3333333333333p-2
OneTenth == FromHex(Chars("999999999999a"), 0 - 4)
TwoTenths == FromHex(Chars("999999999999a"), 0 - 3)
ThreeTenths == FromHex(Chars("3333333333333"), 0 - 2)

\* (date, amount) pairs: 0.1 in the first quarter of 2024, 0.2 and 0.3 in the
\* second
FloatArgs == {<<Q1End, OneTenth>>, <<Q2Start, TwoTenths>>, <<Q2Start, ThreeTenths>>}

InitFloat ==
    /\ Construct([p \in Paths |-> NoFile], DefaultPath,
                 Config(DefaultFedRate, DefaultStateRate, ""))
    /\ extract = NotExtracting

NextFloat ==
    \/ \E da \in FloatArgs :
          add_invoice(da[1], da[2], "consulting", None, "ok", MaxFloatInvoices)
    \/ \E y \in Years, q \in QuarterArgs : Call_float_quarterly_earnings(y, q)
    \/ \E y \in Years : Call_float_yearly_earnings(y)

SpecFloat == InitFloat /\ [][NextFloat]_vars

-----------------------------------------------------------------------------
(* The PDF extractor: PdfInvoiceExtractor.extract_from_pdf                 *)
(* (pdf-extractor-py.py).  A table is a sequence of rows, a row a sequence *)
(* of cells, a cell None or a string.  The text of a page is given by what *)
(* re.findall returns on it for each of the two patterns of lines 122 and  *)
(* 124, or is absent (extract_text() returned None).                       *)

UpperChars == Chars("ABCDEFGHIJKLMNOPQRSTUVWXYZ")
LowerChars == Chars("abcdefghijklmnopqrstuvwxyz")

\* s.lower()
Lower(s) ==
    [i \in 1..Len(s) |->
        IF \E k \in 1..Len(UpperChars) : UpperChars[k] = s[i]
        THEN LowerChars[CHOOSE k \in 1..Len(UpperChars) : UpperChars[k] = s[i]]
        ELSE s[i]]

\* sub in s
Contains(s, sub) ==
    \E i \in 1..(Len(s) - Len(sub) + 1) : SubSeq(s, i, i + Len(sub) - 1) = sub

RECURSIVE Strip(_)
\* s.strip(), of the blanks the model uses
Strip(s) ==
    IF Len(s) > 0 /\ s[1] = " " THEN Strip(Tail(s))
    ELSE IF Len(s) > 0 /\ s[Len(s)] = " " THEN Strip(SubSeq(s, 1, Len(s) - 1))
    ELSE s

\* "if h" on a cell: neither None nor the empty string
Truthy(cell) == cell # None /\ cell # <<>>

\* str(h).strip() if h else ""
CellText(cell) == IF Truthy(cell) THEN Strip(cell) ELSE <<>>

\* the test of a header without lower()
HeaderHas_case_sensitive(h, word) == Contains(h, word)

\* word in h.lower()
HeaderHas(h, word) == Contains(Lower(h), word)

\* lines 45-47: the headers look like those of an invoice table
LooksLikeInvoiceTable(headers) ==
    \A word \in {Chars("invoice"), Chars("date"), Chars("amount")} :
        \E i \in 1..Len(headers) : HeaderHas(headers[i], word)

\* next(i for i, h in enumerate(headers) if word in h.lower()), counted from
\* 1; 0 stands for StopIteration
FirstHeader(headers, word) ==
    IF \E i \in 1..Len(headers) : HeaderHas(headers[i], word)
    THEN CHOOSE i \in 1..Len(headers) :
            /\ HeaderHas(headers[i], word)
            /\ \A j \in 1..(i - 1) : ~HeaderHas(headers[j], word)
    ELSE 0

\* lines 51-55
ColumnIndices(headers) ==
    [type |-> FirstHeader(headers, Chars("type")),
     number |-> FirstHeader(headers, Chars("number")),
     date |-> FirstHeader(headers, Chars("date")),
     amount |-> FirstHeader(headers, Chars("amount")),
     currency |-> FirstHeader(headers, Chars("currency"))]

\* max(doc_type_idx, doc_num_idx, date_idx, amount_idx, currency_idx)
MaxIndex(idx) ==
    CHOOSE m \in {idx.type, idx.number, idx.date, idx.amount, idx.currency} :
        \A k \in {idx.type, idx.number, idx.date, idx.amount, idx.currency} : k <= m

RECURSIVE DigitsAndDots_digits_only(_)
\* the substitution, were it to remove the dots too
DigitsAndDots_digits_only(s) ==
    IF Len(s) = 0 THEN <<>>
    ELSE IF IsDigit(s[1]) THEN <<s[1]>> \o DigitsAndDots_digits_only(Tail(s))
    ELSE DigitsAndDots_digits_only(Tail(s))

RECURSIVE DigitsAndDots(_)
\* re.sub(r'[^\d.]', '', s)
DigitsAndDots(s) ==
    IF Len(s) = 0 THEN <<>>
    ELSE IF IsDigit(s[1]) \/ s[1] = "." THEN <<s[1]>> \o DigitsAndDots(Tail(s))
    ELSE DigitsAndDots(Tail(s))

RECURSIVE OnlyDigits(_)
OnlyDigits(s) ==
    IF Len(s) = 0 THEN <<>>
    ELSE IF IsDigit(s[1]) THEN <<s[1]>> \o OnlyDigits(Tail(s))
    ELSE OnlyDigits(Tail(s))

\* float(s) accepts, of the strings DigitsAndDots gives, those with a digit
\* and at most one '.'
IsFloatText(s) ==
    /\ \E i \in 1..Len(s) : IsDigit(s[i])
    /\ Cardinality({i \in 1..Len(s) : s[i] = "."}) <= 1

RECURSIVE PowerOfTen(_)
PowerOfTen(n) == IF n = 0 THEN 1 ELSE 10 * PowerOfTen(n - 1)

\* float(s) for such a string, as a fraction in lowest terms
FloatOf(s) ==
    LET dots == {i \in 1..Len(s) : s[i] = "."}
        decimals == IF dots = {} THEN 0 ELSE Len(s) - (CHOOSE i \in dots : TRUE)
    IN  Fraction(ParseInt(OnlyDigits(s)), PowerOfTen(decimals))

\* datetime.date(int(y), int(m), int(d)) raises no ValueError
DateArgsOk(y, m, d) ==
    /\ IsIntLiteral(y) /\ IsIntLiteral(m) /\ IsIntLiteral(d)
    /\ ValidDate(ParseInt(y), ParseInt(m), ParseInt(d))

\* the effect of a date block on the local variable date: whether the row or
\* match is skipped, and the value of the variable after the block
DateFrom(y, m, d, date) ==
    IF DateArgsOk(y, m, d)
    THEN [skip |-> FALSE, date |-> MkDate(ParseInt(y), ParseInt(m), ParseInt(d))]
    ELSE [skip |-> TRUE, date |-> date]

\* lines 83-84: with other than three parts nothing is assigned and the row
\* goes on with the value the variable has
DayFirstParts(p, date) ==
    IF Len(p) # 3 THEN [skip |-> FALSE, date |-> date]
    ELSE DateFrom(p[3], p[2], p[1], date)

\* lines 88-89
YearFirstParts(p, date) ==
    IF Len(p) # 3 THEN [skip |-> FALSE, date |-> date]
    ELSE DateFrom(p[1], p[2], p[3], date)

\* the date block of a table row (lines 79-95), given the value date of the
\* local variable before it
RowDate(date_str, date) ==
    IF Contains(date_str, <<"/">>) THEN DayFirstParts(Split(date_str, "/"), date)
    ELSE IF Contains(date_str, <<"-">>) THEN YearFirstParts(Split(date_str, "-"), date)
    ELSE [skip |-> TRUE, date |-> date]

\* line 136; fewer than three parts is the IndexError the block catches
DayFirstMatch(p, date) ==
    IF Len(p) < 3 THEN [skip |-> TRUE, date |-> date]
    ELSE DateFrom(p[3], p[2], p[1], date)

\* line 139
YearFirstMatch(p, date) ==
    IF Len(p) < 3 THEN [skip |-> TRUE, date |-> date]
    ELSE DateFrom(p[1], p[2], p[3], date)

\* the date block of a text match (lines 133-141)
MatchDate(date_str, date) ==
    IF Contains(date_str, <<"/">>) THEN DayFirstMatch(Split(date_str, "/"), date)
    ELSE YearFirstMatch(Split(date_str, "-"), date)

\* the dict of lines 107-113 and 151-157
Candidate(date, amount, description, currency, doc_number) ==
    [date |-> date, amount |-> amount, description |-> description,
     currency |-> currency, doc_number |-> doc_number]

\* lines 97-115 of a row whose date block gave d and whose amount, cleaned,
\* is amount_clean: reading the local date before any assignment to it raises
\* UnboundLocalError
RowParsed(doc_type, doc_num, d, amount_clean, currency, acc) ==
    IF d.skip THEN acc
    ELSE IF ~IsFloatText(amount_clean) THEN [acc EXCEPT !.date = d.date]
    ELSE IF d.date = Unbound THEN [acc EXCEPT !.raised = "UnboundLocalError"]
    ELSE [acc EXCEPT
             !.date = d.date,
             !.found = Append(@, Candidate(d.date, FloatOf(amount_clean),
                                          doc_type \o Chars(": ") \o doc_num,
                                          currency, doc_num))]

\* the row, were the test of line 75 not to ask for a type
RowFields_type_optional(doc_type, doc_num, date_str, amount_str, currency, acc) ==
    IF doc_num = <<>> \/ date_str = <<>> \/ amount_str = <<>>
    THEN acc
    ELSE RowParsed(doc_type, doc_num, RowDate(date_str, acc.date),
                   DigitsAndDots(amount_str), currency, acc)

\* lines 74-115 of a row with the five fields of lines 68-72
RowFields(doc_type, doc_num, date_str, amount_str, currency, acc) ==
    IF doc_type = <<>> \/ doc_num = <<>> \/ date_str = <<>> \/ amount_str = <<>>
    THEN acc
    ELSE RowParsed(doc_type, doc_num, RowDate(date_str, acc.date),
                   DigitsAndDots(amount_str), currency, acc)

\* One iteration of the loop over the rows (lines 60-115).  acc holds the
\* candidates the table appended so far, the local date, and the exception
\* raised, if any.
TableRow(row, idx, acc) ==
    IF acc.raised # "" THEN acc
    ELSE IF row = <<>> \/ \A i \in 1..Len(row) : ~Truthy(row[i]) THEN acc
    ELSE IF Len(row) < MaxIndex(idx) THEN acc
    ELSE RowFields(CellText(row[idx.type]), CellText(row[idx.number]),
                   CellText(row[idx.date]), CellText(row[idx.amount]),
                   CellText(row[idx.currency]), acc)

RECURSIVE TableRows(_, _, _, _)
\* the loop of line 60 from row k on
TableRows(table, k, idx, acc) ==
    IF k > Len(table) THEN acc
    ELSE TableRows(table, k + 1, idx, TableRow(table[k], idx, acc))

\* lines 45-115 of a table with these headers
TableWithHeaders(table, headers, idx, date) ==
    IF ~LooksLikeInvoiceTable(headers)
    THEN [found |-> <<>>, date |-> date, raised |-> ""]
    ELSE IF 0 \in {idx.type, idx.number, idx.date, idx.amount, idx.currency}
    THEN [found |-> <<>>, date |-> date, raised |-> ""]
    ELSE TableRows(table, 2, idx, [found |-> <<>>, date |-> date, raised |-> ""])

\* line 42
Headers(table) == [i \in 1..Len(table[1]) |-> CellText(table[1][i])]

\* One iteration of the loop over the tables of a page (lines 40-115):
\* table[0] of a table without rows raises IndexError.
ExtractTable(table, date) ==
    IF table = <<>> THEN [found |-> <<>>, date |-> date, raised |-> "IndexError"]
    ELSE TableWithHeaders(table, Headers(table), ColumnIndices(Headers(table)), date)

\* the loop of line 40 after a table that gave t
AfterTable(acc, t) ==
    [tables |-> Append(acc.tables, t.found), date |-> t.date, raised |-> t.raised]

RECURSIVE ExtractTables(_, _, _)
\* the loop of line 40 from table k on; acc.tables holds, table by table, the
\* candidates appended
ExtractTables(tables, k, acc) ==
    IF k > Len(tables) \/ acc.raised # "" THEN acc
    ELSE ExtractTables(tables, k + 1, AfterTable(acc, ExtractTable(tables[k], acc.date)))

\* extract_text() returned None
NoText == [present |-> FALSE, matches |-> <<<<>>, <<>>>>]

\* a text on which re.findall gives first for the pattern of line 122 and
\* second for the pattern of line 124
Text(first, second) == [present |-> TRUE, matches |-> <<first, second>>]

\* re.findall(invoice_patterns[k], text, re.IGNORECASE)
findall(k, text) == text.matches[k]

\* lines 143-159 of a match whose date block gave d
MatchParsed(doc_num, d, amount_clean, acc) ==
    IF d.skip THEN acc
    ELSE IF ~IsFloatText(amount_clean) THEN [acc EXCEPT !.date = d.date]
    ELSE [acc EXCEPT
             !.date = d.date,
             !.found = Append(@, Candidate(d.date, FloatOf(amount_clean),
                                          Chars("Invoice: ") \o doc_num,
                                          Chars("USD"), doc_num))]

\* one iteration of the loop over the matches (lines 129-159)
TextMatch(match, acc) ==
    MatchParsed(match[1], MatchDate(match[2], acc.date), DigitsAndDots(match[3]), acc)

RECURSIVE TextMatches(_, _, _)
TextMatches(matches, k, acc) ==
    IF k > Len(matches) THEN acc
    ELSE TextMatches(matches, k + 1, TextMatch(matches[k], acc))

\* the text pass of a page (lines 120-159): re.findall on None raises TypeError
ExtractText(text, date) ==
    IF ~text.present THEN [found |-> <<>>, date |-> date, raised |-> "TypeError"]
    ELSE TextMatches(findall(2, text), 1,
                     TextMatches(findall(1, text), 1,
                                 [found |-> <<>>, date |-> date, raised |-> ""]))

RECURSIVE Concat(_)
\* the elements of the sequences of ss, in order
Concat(ss) == IF Len(ss) = 0 THEN <<>> ELSE Head(ss) \o Concat(Tail(ss))

\* the condition of line 118 with the test never passing
TextFallbackDue_never(invs) == FALSE

\* the condition of line 118 with the test always passing
TextFallbackDue_always(invs) == TRUE

\* the condition of line 118: "if not invoices", on the list accumulated so far
TextFallbackDue(invs) == invs = <<>>

\* what the handler of lines 163-165 returns, were it the list collected so far
Caught_partial(invs) == invs

\* what the handler of lines 163-165 returns: []
Caught(invs) == <<>>

LedgerState == <<invoices, fed_tax_rate, state_tax_rate, state_code, data_file, files, last,
                 faults>>

\* extract_from_pdf(pdf_path), lines 28-31: pdfplumber.open raises on a file
\* that is no PDF, and the handler of line 163 returns
extract_from_pdf_open(pdf) ==
    /\ extract.pc = "idle"
    /\ extract' = IF pdf.opens
                  THEN [extract EXCEPT !.pc = "pages", !.pdf = pdf, !.page = 1]
                  ELSE [extract EXCEPT !.pc = "returned", !.pdf = pdf,
                                       !.raised = "PDFSyntaxError",
                                       !.result = Caught(extract.invoices)]
    /\ UNCHANGED LedgerState

\* the call after an exception exc reached the handler of line 163
Abort(ex, collected, date, entry, exc) ==
    [ex EXCEPT !.pc = "returned", !.invoices = collected, !.date = date,
               !.log = Append(@, entry), !.raised = exc, !.result = Caught(collected)]

\* the call after a page that raised nothing
NextPage(ex, collected, date, entry) ==
    [ex EXCEPT !.page = @ + 1, !.invoices = collected, !.date = date,
               !.log = Append(@, entry)]

\* the entry of the log for a page: the candidates each table appended,
\* whether the text pass ran, and the candidates it appended
LogEntry(tables, scanned, text) == [tables |-> tables, scanned |-> scanned, text |-> text]

\* lines 118-159 after a text pass that gave x
AfterText(ex, t, after_tables, x) ==
    IF x.raised # ""
    THEN Abort(ex, after_tables \o x.found, x.date, LogEntry(t.tables, TRUE, x.found),
               x.raised)
    ELSE NextPage(ex, after_tables \o x.found, x.date, LogEntry(t.tables, TRUE, x.found))

\* lines 117-159 after the tables of the page gave t and the list is after_tables
AfterTables(ex, page, t, after_tables) ==
    IF t.raised # ""
    THEN Abort(ex, after_tables, t.date, LogEntry(t.tables, FALSE, <<>>), t.raised)
    ELSE IF TextFallbackDue(after_tables)
    THEN AfterText(ex, t, after_tables, ExtractText(page.text, t.date))
    ELSE NextPage(ex, after_tables, t.date, LogEntry(t.tables, FALSE, <<>>))

\* the tables of the page (lines 38-115), then the rest of the iteration
PageTables(ex, page, t) == AfterTables(ex, page, t, ex.invoices \o Concat(t.tables))

\* One iteration of "for page in pdf.pages" (lines 32-159).
extract_from_pdf_page ==
    /\ extract.pc = "pages"
    /\ extract.page <= Len(extract.pdf.pages)
    /\ extract' = PageTables(extract, extract.pdf.pages[extract.page],
                             ExtractTables(extract.pdf.pages[extract.page].tables, 1,
                                           [tables |-> <<>>, date |-> extract.date,
                                            raised |-> ""]))
    /\ UNCHANGED LedgerState

\* return invoices (line 161)
extract_from_pdf_return ==
    /\ extract.pc = "pages"
    /\ extract.page > Len(extract.pdf.pages)
    /\ extract' = [extract EXCEPT !.pc = "returned", !.result = extract.invoices]
    /\ UNCHANGED LedgerState

-----------------------------------------------------------------------------
(* The extraction specification: one call of extract_from_pdf on each      *)
(* document of up to MaxPages pages.                                       *)

MaxPages == 2   \* the documents have at most this many pages

\* the table of the example: five headers and one valid row
ExampleTable ==
    <<<<Chars("Invoice Type"), Chars("Invoice Number"), Chars("Invoice Date"),
        Chars("Amount"), Chars("Currency")>>,
      <<Chars("Invoice"), Chars("INV-1"), Chars("15/03/2024"), Chars("$1,234.56"),
        Chars("USD")>>>>

\* headers in capitals, a blank row, and a row with an ISO date
CapitalsTable ==
    <<<<Chars("DOC TYPE"), Chars(" INVOICE NUMBER "), Chars("DATE"), Chars("AMOUNT"),
        Chars("CURRENCY")>>,
      <<None, <<>>, None, None, None>>,
      <<Chars("Credit"), Chars("CN-7"), Chars("2024-04-01"), Chars("250"), Chars("EUR")>>>>

\* no header names an amount
NoAmountTable ==
    <<<<Chars("Invoice Type"), Chars("Invoice Number"), Chars("Invoice Date"),
        Chars("Currency")>>,
      <<Chars("Invoice"), Chars("INV-2"), Chars("15/03/2024"), Chars("USD")>>>>

\* "invoice", "date" and "amount" are there, no header names a currency
NoCurrencyTable ==
    <<<<Chars("Invoice Type"), Chars("Invoice Number"), Chars("Invoice Date"),
        Chars("Amount")>>,
      <<Chars("Invoice"), Chars("INV-3"), Chars("15/03/2024"), Chars("100")>>>>

\* a row whose date has two parts only
ShortDateTable ==
    <<<<Chars("Invoice Type"), Chars("Invoice Number"), Chars("Invoice Date"),
        Chars("Amount"), Chars("Currency")>>,
      <<Chars("Invoice"), Chars("INV-4"), Chars("03/2024"), Chars("75"), Chars("USD")>>>>

\* a table without rows
EmptyTable == <<>>

\* One valid row, then rows with a date out of range, a date without
\* separator, a date with a component that is no integer, an amount of
\* symbols only, an amount with two dots, no currency, four cells only, no
\* type, and a date of two parts.
MixedRowsTable ==
    <<<<Chars("Invoice Type"), Chars("Invoice Number"), Chars("Invoice Date"),
        Chars("Amount"), Chars("Currency")>>,
      <<Chars("Invoice"), Chars("R1"), Chars("01/02/2024"), Chars("40"), Chars("USD")>>,
      <<Chars("Invoice"), Chars("R2"), Chars("2024-13-40"), Chars("10"), Chars("USD")>>,
      <<Chars("Invoice"), Chars("R3"), Chars("20240315"), Chars("10"), Chars("USD")>>,
      <<Chars("Invoice"), Chars("R4"), Chars("aa/03/2024"), Chars("10"), Chars("USD")>>,
      <<Chars("Invoice"), Chars("R5"), Chars("02/03/2024"), Chars("N/A"), Chars("USD")>>,
      <<Chars("Invoice"), Chars("R6"), Chars("02/03/2024"), Chars("1.2.3"), Chars("USD")>>,
      <<Chars("Invoice"), Chars("R7"), Chars("05/03/2024"), Chars("80"), None>>,
      <<Chars("Invoice"), Chars("R8"), Chars("06/03/2024"), Chars("80")>>,
      <<None, Chars("R9"), Chars("06/03/2024"), Chars("80"), Chars("USD")>>,
      <<Chars("Invoice"), Chars("R10"), Chars("03/2024"), Chars("75"), Chars("USD")>>>>

\* "Invoice: INV-9 Date: 2024-03-15 Amount: $99.50"
OneMatchText == Text(<<<<Chars("INV-9"), Chars("2024-03-15"), Chars("99.50")>>>>, <<>>)

\* a text neither pattern matches
PlainText == Text(<<>>, <<>>)

\* "Invoice: T1 Date: 2024-03-15 Amount: 1.2.3", "Invoice: T2 Date: 16/03/2024
\* Amount: $,", "Invoice: T3 Date: 17/03/2024 Amount: $1,234.56", and for the
\* second pattern "Invoice T4 2024-3-18 7."
BadAmountsText ==
    Text(<<<<Chars("T1"), Chars("2024-03-15"), Chars("1.2.3")>>,
           <<Chars("T2"), Chars("16/03/2024"), Chars(",")>>,
           <<Chars("T3"), Chars("17/03/2024"), Chars("1,234.56")>>>>,
         <<<<Chars("T4"), Chars("2024-3-18"), Chars("7.")>>>>)

Page(tables, text) == [tables |-> tables, text |-> text]

Pages ==
    {Page(<<ExampleTable>>, PlainText),
     Page(<<CapitalsTable>>, OneMatchText),
     Page(<<NoAmountTable, NoCurrencyTable>>, OneMatchText),
     Page(<<>>, OneMatchText),
     Page(<<>>, NoText),
     Page(<<ShortDateTable>>, PlainText),
     Page(<<EmptyTable>>, PlainText),
     Page(<<MixedRowsTable>>, PlainText),
     Page(<<>>, BadAmountsText)}

\* a file that is no PDF, and the documents of 0..MaxPages pages
Documents ==
    {[opens |-> FALSE, pages |-> <<>>]}
    \cup {[opens |-> TRUE, pages |-> ps] : ps \in UNION {[1..n -> Pages] : n \in 0..MaxPages}}

InitExtract ==
    /\ Construct([p \in Paths |-> NoFile], DefaultPath,
                 Config(DefaultFedRate, DefaultStateRate, ""))
    /\ extract = NotExtracting

NextExtract ==
    \/ \E pdf \in Documents : extract_from_pdf_open(pdf)
    \/ extract_from_pdf_page
    \/ extract_from_pdf_return

SpecExtract == InitExtract /\ [][NextExtract]_vars

-----------------------------------------------------------------------------
(* PdfInvoiceExtractor.extract_from_remittance_advice (lines 168-298).     *)
(* Here the text of a page is a string, or None.  The function has a table *)
(* pass only.                                                              *)

\* the test of line 188 without lower()
IsRemittanceAdvice_case_sensitive(text) == Contains(text, Chars("remittance advice"))

\* "remittance advice" in text.lower() (line 188)
IsRemittanceAdvice(text) == Contains(Lower(text), Chars("remittance advice"))

RECURSIVE JoinSpace(_)
\* " ".join(headers)
JoinSpace(headers) ==
    IF Len(headers) = 0 THEN <<>>
    ELSE IF Len(headers) = 1 THEN headers[1]
    ELSE headers[1] \o <<" ">> \o JoinSpace(Tail(headers))

\* line 195
RemittanceHeaders(table) == [i \in 1..Len(table[1]) |-> Lower(CellText(table[1][i]))]

\* lines 198-200, on " ".join(headers)
RemittanceTableLike(joined) ==
    /\ Contains(joined, Chars("document")) \/ Contains(joined, Chars("invoice"))
    /\ Contains(joined, Chars("date"))
    /\ Contains(joined, Chars("amount"))

\* the branch of the chain of lines 210-219 that a header takes
HeaderKind(header) ==
    IF Contains(header, Chars("type")) /\ Contains(header, Chars("document")) THEN "type"
    ELSE IF /\ Contains(header, Chars("number"))
            /\ Contains(header, Chars("document")) \/ Contains(header, Chars("invoice"))
    THEN "number"
    ELSE IF Contains(header, Chars("date")) THEN "date"
    ELSE IF Contains(header, Chars("amount")) /\ Contains(header, Chars("payment"))
    THEN "amount"
    ELSE IF Contains(header, Chars("currency")) THEN "currency"
    ELSE "none"

\* the index the loop of line 209 leaves for a kind: that of the last header
\* taking its branch, counted from 1; 0 stands for None
LastHeader(headers, kind) ==
    IF \E i \in 1..Len(headers) : HeaderKind(headers[i]) = kind
    THEN CHOOSE i \in 1..Len(headers) :
            /\ HeaderKind(headers[i]) = kind
            /\ \A j \in (i + 1)..Len(headers) : HeaderKind(headers[j]) # kind
    ELSE 0

\* lines 203-219
RemittanceIndices(headers) ==
    [type |-> LastHeader(headers, "type"), number |-> LastHeader(headers, "number"),
     date |-> LastHeader(headers, "date"), amount |-> LastHeader(headers, "amount"),
     currency |-> LastHeader(headers, "currency")]

\* the characters U+20AC and U+00A3, written by name
EuroSign == "euro sign"
PoundSign == "pound sign"

\* lines 238-246 once row[currency_idx] raised no IndexError
RemittanceCurrency(row, idx, amount_str) ==
    IF idx.currency # 0 /\ Truthy(row[idx.currency]) THEN CellText(row[idx.currency])
    ELSE IF Contains(amount_str, Chars("USD")) \/ Contains(amount_str, <<"$">>)
    THEN Chars("USD")
    ELSE IF Contains(amount_str, Chars("EUR")) \/ Contains(amount_str, <<EuroSign>>)
    THEN Chars("EUR")
    ELSE IF Contains(amount_str, Chars("GBP")) \/ Contains(amount_str, <<PoundSign>>)
    THEN Chars("GBP")
    ELSE Chars("USD")

\* date_formats with the month-first format before the day-first one
date_formats_month_first ==
    <<[sep |-> "/", day |-> 2, month |-> 1, year |-> 3],
      [sep |-> "/", day |-> 1, month |-> 2, year |-> 3],
      [sep |-> "-", day |-> 3, month |-> 2, year |-> 1],
      [sep |-> "-", day |-> 1, month |-> 2, year |-> 3],
      [sep |-> ".", day |-> 1, month |-> 2, year |-> 3]>>

\* date_formats (lines 254-261): %d/%m/%Y, %m/%d/%Y, %Y-%m-%d, %d-%m-%Y and
\* %d.%m.%Y, each as its separator and the places of day, month and year
date_formats ==
    <<[sep |-> "/", day |-> 1, month |-> 2, year |-> 3],
      [sep |-> "/", day |-> 2, month |-> 1, year |-> 3],
      [sep |-> "-", day |-> 3, month |-> 2, year |-> 1],
      [sep |-> "-", day |-> 1, month |-> 2, year |-> 3],
      [sep |-> ".", day |-> 1, month |-> 2, year |-> 3]>>

\* the numbers of digits the pattern of a format takes at place k: \d{4} for
\* the year, \d{1,2} for day and month
GuardDigits(f, k) == IF f.year = k THEN {4} ELSE {1, 2}

\* re.match(pattern, date_str) (line 264): the pattern matches a prefix
GuardMatches(s, f) ==
    \E a \in GuardDigits(f, 1), b \in GuardDigits(f, 2), c \in GuardDigits(f, 3) :
        /\ Len(s) >= a + b + c + 2
        /\ IsIntLiteral(SubSeq(s, 1, a))
        /\ s[a + 1] = f.sep
        /\ IsIntLiteral(SubSeq(s, a + 2, a + b + 1))
        /\ s[a + b + 2] = f.sep
        /\ IsIntLiteral(SubSeq(s, a + b + 3, a + b + c + 2))

\* strptime(date_str, date_format) raises no ValueError, p being the string
\* split at the separator: the whole string is day, month and year of one or
\* two, one or two and four digits, and they are a date
StrptimeOk(p, f) ==
    /\ Len(p) = 3
    /\ \A k \in 1..3 : IsIntLiteral(p[k]) /\ Len(p[k]) <= 4
    /\ Len(p[f.year]) = 4 /\ Len(p[f.day]) <= 2 /\ Len(p[f.month]) <= 2
    /\ ValidDate(ParseInt(p[f.year]), ParseInt(p[f.month]), ParseInt(p[f.day]))

\* strptime(date_str, date_format).date()
Strptime(p, f) == MkDate(ParseInt(p[f.year]), ParseInt(p[f.month]), ParseInt(p[f.day]))

RECURSIVE TryFormats(_, _, _)
\* the loop of lines 263-269 from format k on: <<date>>, or <<>> for None
TryFormats(s, formats, k) ==
    IF k > Len(formats) THEN <<>>
    ELSE IF GuardMatches(s, formats[k]) /\ StrptimeOk(Split(s, formats[k].sep), formats[k])
    THEN <<Strptime(Split(s, formats[k].sep), formats[k])>>
    ELSE TryFormats(s, formats, k + 1)

\* lines 271-288 of a row whose date is read as date (<<>> for None);
\* float() raising ValueError is caught at line 290
RemittanceParsed(doc_type, doc_num, date, amount_clean, currency, found) ==
    IF date = <<>> THEN found
    ELSE IF ~IsFloatText(amount_clean) THEN found
    ELSE Append(found, Candidate(date[1], FloatOf(amount_clean),
                                 IF doc_type # <<>> THEN doc_type \o Chars(": ") \o doc_num
                                 ELSE Chars("Invoice: ") \o doc_num,
                                 currency, doc_num))

\* lines 248-288
RemittanceFields(doc_type, doc_num, date_str, amount_str, currency, found) ==
    IF doc_num = <<>> \/ date_str = <<>> \/ amount_str = <<>> THEN found
    ELSE RemittanceParsed(doc_type, doc_num, TryFormats(date_str, date_formats, 1),
                          DigitsAndDots(amount_str), currency, found)

\* One iteration of the loop over the rows (lines 226-292); a currency
\* column beyond the row raises IndexError at line 239, caught at line 290
RemittanceRow(row, idx, found) ==
    IF row = <<>> THEN found
    ELSE IF \E k \in {idx.type, idx.number, idx.date, idx.amount} : Len(row) < k THEN found
    ELSE IF Len(row) < idx.currency THEN found
    ELSE RemittanceFields(CellText(row[idx.type]), CellText(row[idx.number]),
                          CellText(row[idx.date]), CellText(row[idx.amount]),
                          RemittanceCurrency(row, idx, CellText(row[idx.amount])), found)

RECURSIVE RemittanceRows(_, _, _, _)
\* the loop of line 226 from row k on
RemittanceRows(table, k, idx, found) ==
    IF k > Len(table) THEN found
    ELSE RemittanceRows(table, k + 1, idx, RemittanceRow(table[k], idx, found))

\* lines 198-292 of a table with these headers
RemittanceWithHeaders(table, headers, idx) ==
    IF ~RemittanceTableLike(JoinSpace(headers)) THEN <<>>
    ELSE IF 0 \in {idx.type, idx.number, idx.date, idx.amount} THEN <<>>
    ELSE RemittanceRows(table, 2, idx, <<>>)

\* One iteration of the loop over the tables of a page (lines 190-292): the
\* candidates the table appends
RemittanceTable(table) ==
    IF Len(table) < 2 THEN <<>>
    ELSE RemittanceWithHeaders(table, RemittanceHeaders(table),
                               RemittanceIndices(RemittanceHeaders(table)))

\* the candidates of the tables of a page, table by table
RemittanceTables(tables) == [k \in 1..Len(tables) |-> RemittanceTable(tables[k])]

\* One iteration of "for page in pdf.pages" (lines 182-292): text.lower() on
\* None raises AttributeError, which the handler of line 296 catches
RemittancePage(ex, page) ==
    IF page.text = None
    THEN Abort(ex, ex.invoices, ex.date, LogEntry(<<>>, FALSE, <<>>), "AttributeError")
    ELSE IF ~IsRemittanceAdvice(page.text)
    THEN NextPage(ex, ex.invoices, ex.date, LogEntry(<<>>, FALSE, <<>>))
    ELSE NextPage(ex, ex.invoices \o Concat(RemittanceTables(page.tables)), ex.date,
                  LogEntry(RemittanceTables(page.tables), FALSE, <<>>))

\* extract_from_remittance_advice(pdf_path), lines 178-181
extract_from_remittance_advice_open(pdf) ==
    /\ extract.pc = "idle"
    /\ extract' = IF pdf.opens
                  THEN [extract EXCEPT !.pc = "pages", !.pdf = pdf, !.page = 1]
                  ELSE [extract EXCEPT !.pc = "returned", !.pdf = pdf,
                                       !.raised = "PDFSyntaxError",
                                       !.result = Caught(extract.invoices)]
    /\ UNCHANGED LedgerState

extract_from_remittance_advice_page ==
    /\ extract.pc = "pages"
    /\ extract.page <= Len(extract.pdf.pages)
    /\ extract' = RemittancePage(extract, extract.pdf.pages[extract.page])
    /\ UNCHANGED LedgerState

\* return invoices (line 294)
extract_from_remittance_advice_return ==
    /\ extract.pc = "pages"
    /\ extract.page > Len(extract.pdf.pages)
    /\ extract' = [extract EXCEPT !.pc = "returned", !.result = extract.invoices]
    /\ UNCHANGED LedgerState

-----------------------------------------------------------------------------
(* The remittance specification: one call of                               *)
(* extract_from_remittance_advice on each document of up to MaxPages pages *)

\* The headers of a remittance advice, and rows with the dates 01/02/2024,
\* 03/15/2024, 2024-03-15, 15-03-2024, 15.03.2024, 2024/03/15, 31/31/2024
\* and 01/02/2024x; then a row without a type and a row without an amount.
AdviceTable ==
    <<<<Chars("Document Type"), Chars("Document Number"), Chars("Document Date"),
        Chars("Payment Amount"), Chars("Currency")>>,
      <<Chars("Invoice"), Chars("D1"), Chars("01/02/2024"), Chars("$100.00"), Chars("CAD")>>,
      <<Chars("Invoice"), Chars("D2"), Chars("03/15/2024"), Chars("EUR 50"), None>>,
      <<Chars("Invoice"), Chars("D3"), Chars("2024-03-15"), Chars("10"), None>>,
      <<Chars("Invoice"), Chars("D4"), Chars("15-03-2024"), <<PoundSign, "7">>, None>>,
      <<Chars("Invoice"), Chars("D5"), Chars("15.03.2024"), Chars("10"), None>>,
      <<Chars("Invoice"), Chars("D6"), Chars("2024/03/15"), Chars("10"), None>>,
      <<Chars("Invoice"), Chars("D7"), Chars("31/31/2024"), Chars("10"), None>>,
      <<Chars("Invoice"), Chars("D8"), Chars("01/02/2024x"), Chars("10"), None>>,
      <<None, Chars("D9"), Chars("1/2/2024"), Chars("10"), None>>,
      <<Chars("Invoice"), Chars("D10"), Chars("01/02/2024"), Chars("N/A"), None>>>>

\* only the header row
HeaderOnlyTable == <<AdviceTable[1]>>

\* "Invoice: INV-9 Date: 2024-03-15 Amount: $99.50" under the heading
AdviceWithInvoiceLine ==
    Chars("Remittance Advice Invoice: INV-9 Date: 2024-03-15 Amount: $99.50")

RemittancePages ==
    {Page(<<AdviceTable>>, Chars("Payment REMITTANCE Advice")),
     Page(<<AdviceTable>>, Chars("Statement of account")),
     Page(<<>>, AdviceWithInvoiceLine),
     Page(<<ExampleTable>>, Chars("remittance advice")),
     Page(<<EmptyTable, HeaderOnlyTable>>, Chars("remittance advice")),
     Page(<<AdviceTable>>, None)}

\* a file that is no PDF, and the documents of 0..MaxPages pages
RemittanceDocuments ==
    {[opens |-> FALSE, pages |-> <<>>]}
    \cup {[opens |-> TRUE, pages |-> ps] :
             ps \in UNION {[1..n -> RemittancePages] : n \in 0..MaxPages}}

NextRemittance ==
    \/ \E pdf \in RemittanceDocuments : extract_from_remittance_advice_open(pdf)
    \/ extract_from_remittance_advice_page
    \/ extract_from_remittance_advice_return

SpecRemittance == InitExtract /\ [][NextRemittance]_vars

-----------------------------------------------------------------------------
(* Properties of the persistence specification (Spec) *)

Mutators == {"add", "delete", "set_tax_rates", "change_data_location"}

\* the document a successful save of the current fields writes
CurrentDocument == JsonFile(SaveData(invoices, fed_tax_rate, state_tax_rate, state_code))

\* C1: after any call to add, delete, set_tax_rates or change_data_location
\* that returns ok=true, the backing file holds the serialization of the
\* current configuration and invoice list, also when a write can fail.
C1_FileNeverStale ==
    (last.op \in Mutators /\ last.ok) => files[data_file] = CurrentDocument

\* C2: a successful save followed by the load of a fresh Ledger on the same
\* file gives back the same invoices, in the same order, and the same
\* configuration: a step that reopens the file right after a mutation whose
\* save succeeded changes none of the four fields.
C2_RoundTrip ==
    [][(last.op \in Mutators /\ last.save = "ok" /\ last'.op = "init")
        => /\ invoices' = invoices
           /\ fed_tax_rate' = fed_tax_rate
           /\ state_tax_rate' = state_tax_rate
           /\ state_code' = state_code
           /\ last'.raised = ""]_vars

\* a fresh Ledger that loaded two invoices with different ids and a
\* configuration that only set_tax_rates can have written
C2_Witness ==
    /\ last.op = "init"
    /\ Len(invoices) = 2
    /\ invoices[1].invoice_id = <<"X">>
    /\ invoices[2].invoice_id # <<"X">>
    /\ invoices[2].date = Q1End
    /\ fed_tax_rate = 100
    /\ state_tax_rate = 0
    /\ state_code = "NY"

\* C9: in every state of a Ledger both rates are within 0.0 and 1.0.
C9_RatesInRange ==
    Alive => /\ 0 <= fed_tax_rate /\ fed_tax_rate <= 100
             /\ 0 <= state_tax_rate /\ state_tax_rate <= 100

\* C7: delete with an id that matches no invoice returns ok=false and leaves
\* the invoice list, the configuration, the backing file and its path as
\* they were.
C7_DeleteMissing ==
    [][(/\ last'.op = "delete"
        /\ \A i \in 1..Len(invoices) : invoices[i].invoice_id # last'.args.invoice_id)
        => /\ last'.ok = FALSE
           /\ UNCHANGED <<invoices, fed_tax_rate, state_tax_rate, state_code,
                          data_file, files>>]_vars

\* a failed delete on a list that holds invoices and a written file
C7_Witness ==
    /\ last.op = "delete"
    /\ last.ok = FALSE
    /\ last.args.invoice_id = AbsentId
    /\ Len(invoices) = 2
    /\ files[data_file].kind = "json"

\* C8: set_tax_rates is all-or-nothing: with either rate outside [0.0, 1.0]
\* it returns ok=false, the three configuration fields keep their values and
\* the file is not rewritten; otherwise the three fields take the arguments
\* and it returns ok=true.
C8_SetTaxRates ==
    [][last'.op = "set_tax_rates"
        => LET a == last'.args IN
           IF a.fed_rate < 0 \/ a.fed_rate > 100 \/ a.state_rate < 0 \/ a.state_rate > 100
           THEN /\ last'.ok = FALSE
                /\ UNCHANGED <<fed_tax_rate, state_tax_rate, state_code, files>>
           ELSE /\ last'.ok = TRUE
                /\ fed_tax_rate' = a.fed_rate
                /\ state_tax_rate' = a.state_rate
                /\ state_code' = a.state_code]_vars

\* a call rejected for its state rate alone, after one that was accepted
C8_Witness ==
    /\ last.op = "set_tax_rates"
    /\ last.ok = FALSE
    /\ last.args.fed_rate = 0
    /\ last.args.state_rate = 101
    /\ fed_tax_rate = 100
    /\ state_tax_rate = 0
    /\ state_code = "NY"

-----------------------------------------------------------------------------
(* Properties of the query specification (SpecQuery) *)

\* a date as the number YYYYMMDD, which orders dates as the calendar does
DateKey(d) == d.year * 10000 + d.month * 100 + d.day

\* the quarters of the calendar: first day, and last day (Mar 31, Jun 30,
\* Sep 30, Dec 31)
QuarterFirst(y, q) == MkDate(y, 3 * q - 2, 1)
QuarterLast(y, q) == MkDate(y, 3 * q, IF q \in {1, 4} THEN 31 ELSE 30)

RECURSIVE SumAmounts(_, _)
\* the sum of the amounts of the invoices at the indices in S
SumAmounts(invs, S) ==
    IF S = {} THEN 0
    ELSE LET i == CHOOSE j \in S : TRUE IN invs[i].amount + SumAmounts(invs, S \ {i})

\* C3: quarterly_earnings(year, quarter) is the sum of the amounts of exactly
\* the invoices dated from the quarter's first day to its last day, both
\* included.
C3_QuarterlyEarnings ==
    (last.op = "get_quarterly_earnings" /\ last.raised = "")
    => LET y == last.args.year
           q == last.args.quarter
           within == {i \in 1..Len(invoices) :
                         /\ DateKey(QuarterFirst(y, q)) <= DateKey(invoices[i].date)
                         /\ DateKey(invoices[i].date) <= DateKey(QuarterLast(y, q))}
       IN  last.value = SumAmounts(invoices, within)

\* the earnings of 2024 Q1 with an invoice on its last day (counted), one a
\* day after it and one a day before its first day (not counted)
C3_Witness ==
    /\ last.op = "get_quarterly_earnings"
    /\ last.raised = ""
    /\ last.args = [year |-> 2024, quarter |-> 1]
    /\ {invoices[i].date : i \in 1..Len(invoices)} = {PriorYearEnd, Q1End, Q2Start}
    /\ Len(invoices) = 3
    /\ last.value = 100

\* the lengths of the months of year y
MonthLengths(y) ==
    <<31, IF y % 4 = 0 /\ (y % 100 # 0 \/ y % 400 = 0) THEN 29 ELSE 28,
      31, 30, 31, 30, 31, 31, 30, 31, 30, 31>>

RECURSIVE DaysBefore(_, _)
\* the days of year y in the months before month m
DaysBefore(y, m) == IF m = 1 THEN 0 ELSE DaysBefore(y, m - 1) + MonthLengths(y)[m - 1]

\* the position of a date in its year, from 1
DayOfYear(d) == DaysBefore(d.year, d.month) + d.day

\* C4: quarter_bounds(year, q) for q in 1..4 is the 1st of month 3q-2 and the
\* last day of month 3q (Mar 31, Jun 30, Sep 30, Dec 31), in leap and common
\* years; the four quarters of the year are disjoint and cover it from Jan 1
\* to Dec 31 without a gap.
C4_QuarterBounds ==
    (last.op = "get_quarter_bounds" /\ last.raised = "")
    => LET y == last.args.year
           q == last.args.quarter
           first(k) == DayOfYear(get_quarter_bounds(y, k)[1])
           final(k) == DayOfYear(get_quarter_bounds(y, k)[2])
       IN  /\ last.value = <<QuarterFirst(y, q), QuarterLast(y, q)>>
           /\ first(1) = 1
           /\ final(4) = DaysBefore(y, 12) + 31
           /\ \A k \in 1..4 : first(k) <= final(k)
           /\ \A k \in 1..3 : first(k + 1) = final(k) + 1

\* the bounds of the third quarter of a leap year
C4_Witness ==
    /\ last.op = "get_quarter_bounds"
    /\ last.raised = ""
    /\ last.args = [year |-> 2024, quarter |-> 3]
    /\ last.value = <<MkDate(2024, 7, 1), MkDate(2024, 9, 30)>>

\* the four decimal digits of n, for n < 10000
FourDigits(n) ==
    <<DigitChars[((n \div 1000) % 10) + 1], DigitChars[((n \div 100) % 10) + 1],
      DigitChars[((n \div 10) % 10) + 1], DigitChars[(n % 10) + 1]>>

\* INV-<YYYYMMDD>-<n>, n zero-padded to 4 digits
ExpectedId(d, n) ==
    <<"I", "N", "V", "-">> \o FourDigits(d.year)
    \o <<DigitChars[(d.month \div 10) + 1], DigitChars[(d.month % 10) + 1]>>
    \o <<DigitChars[(d.day \div 10) + 1], DigitChars[(d.day % 10) + 1]>>
    \o <<"-">> \o FourDigits(n)

\* C5: two consecutive add calls with no explicit id and the same date give
\* the ids INV-<YYYYMMDD>-<n> and INV-<YYYYMMDD>-<n+1>, n being the number of
\* invoices before the first of them, zero-padded to 4 digits; the two ids
\* are distinct and differ only in the suffix.
C5_ConsecutiveIds ==
    [][(/\ last.op = "add" /\ last.args.invoice_id = None
        /\ last'.op = "add" /\ last'.args.invoice_id = None
        /\ last'.args.date = last.args.date
        /\ Len(invoices') = Len(invoices) + 1)
        => LET n == Len(invoices) - 1
               id1 == invoices'[n + 1].invoice_id
               id2 == invoices'[n + 2].invoice_id
           IN  /\ id1 = ExpectedId(last.args.date, n)
               /\ id2 = ExpectedId(last.args.date, n + 1)
               /\ id1 # id2
               /\ SubSeq(id1, 1, 13) = SubSeq(id2, 1, 13)]_vars

\* two generated ids of the same date after one explicit id: n = 1
C5_Witness ==
    /\ last.op = "add"
    /\ last.args.invoice_id = None
    /\ Len(invoices) = 3
    /\ invoices[1].invoice_id = <<"X">>
    /\ invoices[2].invoice_id = ExpectedId(Q2Start, 1)
    /\ invoices[3].invoice_id = ExpectedId(Q2Start, 2)

\* C6: delete(invoice_id), when an invoice has that id, removes exactly the
\* first such invoice in insertion order, keeps every other invoice (later
\* ones with the same id too) in its relative order, and returns ok=true.
C6_DeleteFirstMatch ==
    [][(/\ last'.op = "delete"
        /\ \E i \in 1..Len(invoices) : invoices[i].invoice_id = last'.args.invoice_id)
        => /\ last'.ok = TRUE
           /\ \E k \in 1..Len(invoices) :
                 /\ invoices[k].invoice_id = last'.args.invoice_id
                 /\ \A j \in 1..(k - 1) : invoices[j].invoice_id # last'.args.invoice_id
                 /\ Len(invoices') = Len(invoices) - 1
                 /\ \A i \in 1..Len(invoices') :
                       invoices'[i] = IF i < k THEN invoices[i] ELSE invoices[i + 1]]_vars

\* after a delete, a later invoice with the deleted id is still in the list,
\* behind an invoice with another id
C6_Witness ==
    /\ last.op = "delete"
    /\ last.ok = TRUE
    /\ last.args.invoice_id = <<"X">>
    /\ Len(invoices) = 2
    /\ invoices[1].invoice_id # <<"X">>
    /\ invoices[2].invoice_id = <<"X">>

\* C10: get_all() is a permutation of the whole list in non-decreasing date
\* order in which invoices of equal date keep their insertion order.
C10_GetAllStableSorted ==
    last.op = "get_all_invoices"
    => LET n == Len(invoices)
           out == last.value
       IN  /\ Len(out) = n
           /\ \E p \in [1..n -> 1..n] :
                 /\ \A i, j \in 1..n : i # j => p[i] # p[j]
                 /\ \A i \in 1..n : out[i] = invoices[p[i]]
                 /\ \A i, j \in 1..n :
                       i < j => \/ DateKey(out[i].date) < DateKey(out[j].date)
                                \/ /\ DateKey(out[i].date) = DateKey(out[j].date)
                                   /\ p[i] < p[j]

\* a result that reorders the list and holds two different invoices of one date
C10_Witness ==
    /\ last.op = "get_all_invoices"
    /\ Len(invoices) = 3
    /\ last.value # invoices
    /\ \E i, j \in 1..3 :
          /\ i < j
          /\ last.value[i].date = last.value[j].date
          /\ last.value[i] # last.value[j]

-----------------------------------------------------------------------------
(* Properties of load_invoices on damaged files (Spec) *)

\* C11: load on a file that exists but holds a structural or parse error
\* (malformed JSON, a top level of the wrong shape, an entry without a field,
\* a malformed date, an amount that is a non-numeric string or null) returns
\* normally and leaves the invoice list empty.
C11_LoadNeverRaises ==
    (last.op = "init" /\ files[data_file] \in BrokenFiles)
        => (last.raised = "" /\ invoices = <<>>)

\* C12: on load each of fed_tax_rate, state_tax_rate and state_code takes the
\* file's value when the file has the field and keeps its prior value when it
\* has not, also when the file's invoice list is malformed and the list
\* becomes empty.
C12_ConfigFallback ==
    (last.op = "init" /\ last.raised = "" /\ files[data_file].kind = "json")
        => LET data == files[data_file].data IN
           /\ fed_tax_rate = IF "fed_tax_rate" \in DOMAIN data
                             THEN data.fed_tax_rate.num ELSE last.args.fed
           /\ state_tax_rate = IF "state_tax_rate" \in DOMAIN data
                               THEN data.state_tax_rate.num ELSE last.args.state
           /\ state_code = IF "state_code" \in DOMAIN data
                           THEN data.state_code.str ELSE last.args.code

-----------------------------------------------------------------------------
(* Properties of failed writes (Spec) *)

\* C16: when the write to the backing file fails during add, delete or
\* set_tax_rates, nothing is raised to the caller and the mutation stays in
\* memory: the list ends with the new invoice, or lacks the first invoice of
\* the id, or the three configuration fields hold the arguments.
C16_FailedWriteKeepsMutation ==
    [][(last'.op \in {"add", "delete", "set_tax_rates"} /\ last'.save = "failed")
        => /\ last'.raised = ""
           /\ last'.op = "add" =>
                 /\ Len(invoices') = Len(invoices) + 1
                 /\ SubSeq(invoices', 1, Len(invoices)) = invoices
                 /\ invoices'[Len(invoices')].date = last'.args.date
                 /\ last'.args.invoice_id # None =>
                       invoices'[Len(invoices')].invoice_id = last'.args.invoice_id
                 /\ UNCHANGED <<fed_tax_rate, state_tax_rate, state_code>>
           /\ last'.op = "delete" =>
                 /\ \E i \in 1..Len(invoices) :
                       /\ invoices[i].invoice_id = last'.args.invoice_id
                       /\ \A j \in 1..(i - 1) : invoices[j].invoice_id # last'.args.invoice_id
                       /\ invoices' = [k \in 1..(Len(invoices) - 1) |->
                                          IF k < i THEN invoices[k] ELSE invoices[k + 1]]
                 /\ UNCHANGED <<fed_tax_rate, state_tax_rate, state_code>>
           /\ last'.op = "set_tax_rates" =>
                 /\ fed_tax_rate' = last'.args.fed_rate
                 /\ state_tax_rate' = last'.args.state_rate
                 /\ state_code' = last'.args.state_code
                 /\ UNCHANGED invoices]_vars

\* an add whose write failed: the list holds two invoices and the file, written
\* by the add before, still holds one
C16_Witness ==
    /\ last.op = "add"
    /\ last.save = "failed"
    /\ Len(invoices) = 2
    /\ files[data_file].kind = "json"
    /\ Len(files[data_file].data.invoices) = 1

-----------------------------------------------------------------------------
(* Properties of the relocation specification (SpecMove) *)

\* C15: change_data_location returns ok=false and restores the path it had
\* before the call when persisting to the new path fails, and returns ok=true
\* with the new path when persisting succeeds.
C15_RelocationReverts ==
    last.op = "change_data_location"
        => IF last.save = "failed"
           THEN last.ok = FALSE /\ data_file = last.args.old
           ELSE last.ok = TRUE /\ data_file = last.args.new_location

-----------------------------------------------------------------------------
(* Properties of the report specification (SpecReport) *)

\* the invoices of invs dated in year y
InYear(invs, y) == {i \in 1..Len(invs) : invs[i].date.year = y}

\* C13: sep_contribution(year) returns potential_contribution = yearly
\* earnings * 0.20, actual_contribution = min(potential, 69000),
\* max_contribution_limit = 69000 and contribution_percent = 0 when the yearly
\* earnings are 0, else actual / yearly earnings * 100; the actual
\* contribution never exceeds the ceiling.  (Contributions in hundredths.)
C13_SepContribution ==
    last.op = "calculate_sep_401k_limit"
    => LET yearly == SumAmounts(invoices, InYear(invoices, last.args.year))
           v == last.value
       IN  /\ v.yearly_earnings = yearly
           /\ v.potential_contribution = yearly * 20
           /\ v.actual_contribution =
                 IF v.potential_contribution <= 6900000
                 THEN v.potential_contribution ELSE 6900000
           /\ v.actual_contribution <= 6900000
           /\ v.max_contribution_limit = 69000
           /\ IF yearly = 0
              THEN v.contribution_percent = [num |-> 0, den |-> 1] /\ v.actual_contribution = 0
              ELSE LET k == yearly \div v.contribution_percent.den IN
                   /\ v.contribution_percent.den * k = yearly
                   /\ v.contribution_percent.num * k = v.actual_contribution

\* yearly earnings of 500,000: potential 100,000 and actual 69,000, which is
\* 13.8 percent
C13_Witness ==
    /\ last.op = "calculate_sep_401k_limit"
    /\ last.value.yearly_earnings = 500000
    /\ last.value.potential_contribution = 10000000
    /\ last.value.actual_contribution = 6900000
    /\ last.value.contribution_percent = [num |-> 69, den |-> 5]
    /\ Len(invoices) = 2

\* C14: generate_quarterly_report(year, quarter) has an entry for exactly the
\* requested quarter, or for 1, 2, 3 and 4 when no quarter is given; each
\* entry holds the quarter's earnings, fed_tax = earnings * fed_tax_rate,
\* state_tax = earnings * state_tax_rate, total_tax = fed_tax + state_tax and
\* the number of invoices dated within the quarter; the SEP result of the
\* year is embedded exactly when no quarter is given.
C14_QuarterlyReport ==
    (last.op = "generate_quarterly_report" /\ last.raised = "")
    => LET y == last.args.year
           v == last.value
           Within(q) == {i \in 1..Len(invoices) :
                            /\ DateKey(QuarterFirst(y, q)) <= DateKey(invoices[i].date)
                            /\ DateKey(invoices[i].date) <= DateKey(QuarterLast(y, q))}
       IN  /\ v.year = y
           /\ DOMAIN v.quarters = IF last.args.quarter = <<>> THEN {1, 2, 3, 4}
                                  ELSE {last.args.quarter[1]}
           /\ \A q \in DOMAIN v.quarters :
                 LET e == v.quarters[q] IN
                 /\ e.earnings = SumAmounts(invoices, Within(q))
                 /\ e.fed_tax = e.earnings * fed_tax_rate
                 /\ e.state_tax = e.earnings * state_tax_rate
                 /\ e.total_tax = e.fed_tax + e.state_tax
                 /\ e.invoice_count = Cardinality(Within(q))
           /\ ("sep_401k" \in DOMAIN v) <=> (last.args.quarter = <<>>)
           /\ ("sep_401k" \in DOMAIN v) =>
                 v.sep_401k.yearly_earnings = SumAmounts(invoices, InYear(invoices, y))

\* the report of all of 2024 on an invoice in each of its first two quarters
C14_Witness ==
    /\ last.op = "generate_quarterly_report"
    /\ last.raised = ""
    /\ last.args = [year |-> 2024, quarter |-> <<>>]
    /\ last.value.quarters[1].earnings = 345000
    /\ last.value.quarters[1].total_tax = 345000 * 25
    /\ last.value.quarters[2].invoice_count = 1
    /\ last.value.quarters[3].invoice_count = 0
    /\ last.value.sep_401k.yearly_earnings = 845000

QuarterOps ==
    {"get_quarter_bounds", "get_quarterly_earnings", "calculate_quarterly_federal_tax",
     "calculate_quarterly_state_tax", "generate_quarterly_report"}

\* the call recorded in r is one of QuarterOps with a quarter outside 1..4
InvalidQuarterCall(r) ==
    /\ r.op \in QuarterOps
    /\ IF r.op = "generate_quarterly_report"
       THEN r.args.quarter # <<>> /\ r.args.quarter[1] \notin 1..4
       ELSE r.args.quarter \notin 1..4

\* C17 as stated: a quarter outside 1..4 passed to quarter_bounds,
\* quarterly_earnings, the quarterly tax operations or the report comes back
\* as a failure result (ok=false and a message), never as an exception.
C17_InvalidQuarterStructured ==
    InvalidQuarterCall(last) => (last.raised = "" /\ last.ok = FALSE)

\* C17 amended: a quarter outside 1..4 passed to quarter_bounds,
\* quarterly_earnings, the quarterly tax operations or the report raises
\* ValueError to the caller, and the Ledger state is as before the call.
C17_InvalidQuarterRaises ==
    [][InvalidQuarterCall(last')
        => /\ last'.raised = "ValueError"
           /\ UNCHANGED <<invoices, fed_tax_rate, state_tax_rate, state_code,
                          data_file, files>>]_vars

\* the report asked for quarter 5, and a tax asked for quarter 0, on a list
\* of two invoices
C17_Witness ==
    /\ last.op = "generate_quarterly_report"
    /\ last.args.quarter = <<5>>
    /\ last.raised = "ValueError"
    /\ Len(invoices) = 2

-----------------------------------------------------------------------------
(* Properties of the extraction specification (SpecExtract) *)

\* C18: extract_from_pdf does not raise: when opening the document or a page
\* or table of it throws (a file that is no PDF, a table without rows, a
\* scanned page whose text is absent, or any other exception) the call
\* returns the empty list, whatever it had collected from earlier pages.
C18_ExtractNeverRaises ==
    extract.pc = "returned"
    => LET pages == extract.pdf.pages
           reached == 1..Len(extract.log)
           threw ==
               \/ ~extract.pdf.opens
               \/ \E p \in reached : \E k \in 1..Len(pages[p].tables) :
                      pages[p].tables[k] = <<>>
               \/ \E p \in reached : extract.log[p].scanned /\ ~pages[p].text.present
               \/ extract.raised # ""
       IN  threw => extract.result = <<>>

\* a table without rows on the second page, after the first page gave a
\* candidate: the call returned the empty list
C18_Witness ==
    /\ extract.pc = "returned"
    /\ extract.raised = "IndexError"
    /\ Len(extract.log) = 2
    /\ extract.log[1].tables = <<ExtractTable(ExampleTable, Unbound).found>>
    /\ Len(extract.invoices) = 1
    /\ extract.result = <<>>

\* c is the letter k, which is in lower case, in either case
SameLetter(c, k) ==
    c = k \/ \E n \in 1..Len(LowerChars) : LowerChars[n] = k /\ UpperChars[n] = c

\* the cell holds the word, in any mix of cases
Mentions(cell, word) ==
    \E i \in 0..(Len(cell) - Len(word)) :
        \A j \in 1..Len(word) : SameLetter(cell[i + j], word[j])

\* C19: in the table pass a table contributes candidates only if its header
\* row has a cell with "invoice", one with "date" and one with "amount"
\* (substrings, in any case) and the columns of type, number, date, amount
\* and currency are all located; and the table with the headers Invoice Type,
\* Invoice Number, Invoice Date, Amount, Currency and one valid row
\* contributes exactly one candidate, described as "<type>: <number>".
C19_TableContributes ==
    \A p \in 1..Len(extract.log) : \A k \in 1..Len(extract.log[p].tables) :
        LET table == extract.pdf.pages[p].tables[k]
            found == extract.log[p].tables[k]
            HeaderNames(word) ==
                table # <<>> /\ \E i \in 1..Len(table[1]) : Mentions(table[1][i], word)
        IN  /\ found # <<>> =>
                  \A word \in {Chars("invoice"), Chars("date"), Chars("amount"),
                               Chars("type"), Chars("number"), Chars("currency")} :
                      HeaderNames(word)
            /\ table = ExampleTable =>
                  /\ Len(found) = 1
                  /\ found[1].description = table[2][1] \o <<":", " ">> \o table[2][2]

\* a page with the table without an amount header and the table without a
\* currency header, which contributed nothing, then a page with the table of
\* the example, which contributed "Invoice: INV-1"
C19_Witness ==
    /\ extract.pc = "returned"
    /\ Len(extract.log) = 2
    /\ extract.pdf.pages[1].tables = <<NoAmountTable, NoCurrencyTable>>
    /\ extract.log[1].tables = << <<>>, <<>> >>
    /\ extract.pdf.pages[2].tables = <<ExampleTable>>
    /\ Len(extract.log[2].tables[1]) = 1
    /\ extract.log[2].tables[1][1].description = Chars("Invoice: INV-1")
    /\ extract.log[2].tables[1][1] = extract.result[Len(extract.result)]

\* C20: the text pass is attempted for a page only if the tables of the
\* document so far (the earlier pages and this page) yielded no candidate;
\* so no text candidate comes from a page at or after the first page whose
\* tables yielded a candidate.
C20_TextFallbackOnlyWithoutTables ==
    \A p \in 1..Len(extract.log) :
        LET tables_yielded ==
                \E q \in 1..p : \E k \in 1..Len(extract.log[q].tables) :
                    extract.log[q].tables[k] # <<>>
        IN  /\ extract.log[p].scanned => ~tables_yielded
            /\ tables_yielded => extract.log[p].text = <<>>

\* the tables of the first page yielded a candidate; the second page has no
\* table and a text that matches, and was not scanned
C20_Witness ==
    /\ extract.pc = "returned"
    /\ Len(extract.log) = 2
    /\ Len(extract.log[1].tables) = 1
    /\ Len(extract.log[1].tables[1]) = 1
    /\ extract.pdf.pages[2] = Page(<<>>, OneMatchText)
    /\ ~extract.log[2].scanned
    /\ Len(extract.result) = 1

\* the rows of the table, counted from 1 with the header row, that reach to
\* the five columns and whose number cell reads doc_num
RowsNumbered(table, doc_num) ==
    {r \in 2..Len(table) :
        /\ Len(table[r]) >= MaxIndex(ColumnIndices(Headers(table)))
        /\ CellText(table[r][ColumnIndices(Headers(table)).number]) = doc_num}

\* the cell of the row in the column the header row names with the word
CellUnder(table, r, word) == table[r][FirstHeader(Headers(table), Chars(word))]

\* the dates a date string reads as: day, month and year when it has a '/',
\* year, month and day when it has a '-', and none when it has neither, has
\* other than three components, or the components are no date
DateReading(s) ==
    LET parts == IF Contains(s, <<"/">>) THEN Split(s, "/") ELSE Split(s, "-")
        ymd == IF Contains(s, <<"/">>) THEN <<3, 2, 1>> ELSE <<1, 2, 3>>
    IN  IF ~Contains(s, <<"/">>) /\ ~Contains(s, <<"-">>) THEN {}
        ELSE IF Len(parts) # 3 THEN {}
        ELSE IF ~DateArgsOk(parts[ymd[1]], parts[ymd[2]], parts[ymd[3]]) THEN {}
        ELSE {MkDate(ParseInt(parts[ymd[1]]), ParseInt(parts[ymd[2]]),
                     ParseInt(parts[ymd[3]]))}

\* C22: in the table pass of extract_from_pdf the date of every candidate is
\* read from the date string of its own row, day first with '/' and year
\* first with '-'; a row whose date string does not read as a date yields no
\* candidate and does not abort the call.
C22_RowDateOwn ==
    /\ extract.raised # "UnboundLocalError"
    /\ \A p \in 1..Len(extract.log) : \A k \in 1..Len(extract.log[p].tables) :
           \A i \in 1..Len(extract.log[p].tables[k]) :
               \E r \in RowsNumbered(extract.pdf.pages[p].tables[k],
                                     extract.log[p].tables[k][i].doc_number) :
                   extract.log[p].tables[k][i].date
                       \in DateReading(CellText(CellUnder(extract.pdf.pages[p].tables[k],
                                                          r, "date")))

\* the cell is None, empty, or of blanks only
Blank(cell) == cell = None \/ \A i \in 1..Len(cell) : cell[i] = " "

\* the candidates the table pass appended, over all pages and tables reached
TableCandidates ==
    UNION {UNION {{extract.log[p].tables[k][i] : i \in 1..Len(extract.log[p].tables[k])} :
                     k \in 1..Len(extract.log[p].tables)} :
              p \in 1..Len(extract.log)}

\* C23 as claimed: a row with any of the five fields blank yields no
\* candidate, so every candidate of the table pass has a type, a number, a
\* date, an amount and a currency that are not blank.
C23_FiveFieldsRequired ==
    \A c \in TableCandidates :
        /\ c.description # Chars(": ") \o c.doc_number
        /\ c.doc_number # <<>>
        /\ c.date # Unbound
        /\ c.currency # <<>>

\* C23: in the table pass of extract_from_pdf every candidate comes from a
\* row after the header row that is not all-blank, reaches to the five
\* located columns, and has a type, a number, a date string and an amount
\* string that are not blank; its description is "<type>: <number>" and its
\* currency the trimmed currency cell, which may be blank.  So a table
\* yields at most as many candidates as it has such rows.
C23_FourFieldsRequired ==
    \A p \in 1..Len(extract.log) : \A k \in 1..Len(extract.log[p].tables) :
        /\ \A i \in 1..Len(extract.log[p].tables[k]) :
               \E r \in RowsNumbered(extract.pdf.pages[p].tables[k],
                                     extract.log[p].tables[k][i].doc_number) :
                   /\ \A word \in {"type", "number", "date", "amount"} :
                          ~Blank(CellUnder(extract.pdf.pages[p].tables[k], r, word))
                   /\ extract.log[p].tables[k][i].description
                          = CellText(CellUnder(extract.pdf.pages[p].tables[k], r, "type"))
                            \o Chars(": ") \o extract.log[p].tables[k][i].doc_number
                   /\ extract.log[p].tables[k][i].currency
                          = CellText(CellUnder(extract.pdf.pages[p].tables[k], r, "currency"))
        /\ extract.log[p].tables[k] # <<>> =>
               Len(extract.log[p].tables[k])
                   <= Cardinality({r \in 2..Len(extract.pdf.pages[p].tables[k]) :
                          /\ Len(extract.pdf.pages[p].tables[k][r])
                                 >= MaxIndex(ColumnIndices(Headers(
                                        extract.pdf.pages[p].tables[k])))
                          /\ \A word \in {"type", "number", "date", "amount"} :
                                 ~Blank(CellUnder(extract.pdf.pages[p].tables[k], r, word))})

\* the table of the mixed rows: the row without a currency gave a candidate
\* with a blank currency; the row of four cells and the row without a type
\* gave none
C23_Witness ==
    /\ extract.pc = "returned"
    /\ Len(extract.log) = 1
    /\ extract.pdf.pages[1].tables = <<MixedRowsTable>>
    /\ \E c \in TableCandidates : c.doc_number = Chars("R7") /\ c.currency = <<>>
    /\ \A c \in TableCandidates : c.doc_number \notin {Chars("R8"), Chars("R9")}
    /\ Len(extract.result) = 3

\* the digits of s, in order
Kept(s) == SelectSeq(s, LAMBDA c : c \in {"0", "1", "2", "3", "4", "5", "6", "7", "8", "9"})

\* the number of s read as a decimal numeral, 0 for no digits
Numeral(s) == IF s = <<>> THEN 0 ELSE ParseInt(s)

\* The amount string reads as the amount a, a fraction: with every character
\* that is no digit and no '.' removed there is a digit and at most one '.',
\* and a is the digits before the '.' plus the digits after it as decimals.
AmountReads(s, a) ==
    LET dots == {i \in 1..Len(s) : s[i] = "."}
        dot == IF dots = {} THEN Len(s) + 1 ELSE CHOOSE i \in dots : TRUE
        whole == Kept(SubSeq(s, 1, dot - 1))
        decimals == Kept(SubSeq(s, dot + 1, Len(s)))
    IN  /\ Cardinality(dots) <= 1
        /\ whole \o decimals # <<>>
        /\ a.num * PowerOfTen(Len(decimals))
               = a.den * (Numeral(whole) * PowerOfTen(Len(decimals)) + Numeral(decimals))

\* the candidates the text pass appended on page p
TextCandidates(p) == {extract.log[p].text[i] : i \in 1..Len(extract.log[p].text)}

\* C24: the amount of every candidate of the extractor, of the table pass and
\* of the text pass, is the number its own amount string reads as once every
\* character that is no digit and no '.' is removed ("$1,234.56" gives
\* 1234.56); a row or match whose remainder is empty or no number yields no
\* candidate, and the call is not aborted by it.
C24_AmountParsed ==
    /\ extract.raised # "ValueError"
    /\ \A p \in 1..Len(extract.log) : \A k \in 1..Len(extract.log[p].tables) :
           \A i \in 1..Len(extract.log[p].tables[k]) :
               \E r \in RowsNumbered(extract.pdf.pages[p].tables[k],
                                     extract.log[p].tables[k][i].doc_number) :
                   AmountReads(CellText(CellUnder(extract.pdf.pages[p].tables[k], r,
                                                  "amount")),
                               extract.log[p].tables[k][i].amount)
    /\ \A p \in 1..Len(extract.log) : \A c \in TextCandidates(p) :
           \E n \in 1..2 : \E m \in 1..Len(extract.pdf.pages[p].text.matches[n]) :
               /\ extract.pdf.pages[p].text.matches[n][m][1] = c.doc_number
               /\ AmountReads(extract.pdf.pages[p].text.matches[n][m][3], c.amount)
    /\ \A c \in TableCandidates :
           c.doc_number = Chars("INV-1") => c.amount = [num |-> 30864, den |-> 25]

\* the text with the amounts "1.2.3", ",", "1,234.56" and "7." gave the
\* candidates T3 of 1234.56 and T4 of 7; then the table of the mixed rows
\* gave no candidate for the amounts "N/A" and "1.2.3", and the call
\* returned the five candidates
C24_Witness ==
    /\ extract.pc = "returned"
    /\ extract.raised = ""
    /\ Len(extract.log) = 2
    /\ extract.pdf.pages[1].text = BadAmountsText
    /\ extract.pdf.pages[2].tables = <<MixedRowsTable>>
    /\ {<<c.doc_number, c.amount>> : c \in TextCandidates(1)}
           = {<<Chars("T3"), [num |-> 30864, den |-> 25]>>,
              <<Chars("T4"), [num |-> 7, den |-> 1]>>}
    /\ \A c \in TableCandidates : c.doc_number \notin {Chars("R5"), Chars("R6")}
    /\ Len(extract.result) = 5

-----------------------------------------------------------------------------
(* Properties of generated ids under deletion (SpecReport, whose add calls *)
(* all leave the id to be generated)                                       *)

\* C26: after any sequence of add calls without an explicit invoice_id,
\* interleaved with delete calls, no two invoices of the collection have the
\* same invoice_id.
C26_GeneratedIdsUnique ==
    \A i, j \in 1..Len(invoices) :
        invoices[i].invoice_id = invoices[j].invoice_id => i = j

-----------------------------------------------------------------------------
(* Properties of the float specification (SpecFloat) *)

\* C28: for every collection and every year, the sum of
\* get_quarterly_earnings(year, q) over the quarters 1 to 4 equals
\* get_yearly_earnings(year).  (The quarters are added in their order, as
\* floats; of the collection 0.1, 0.2, 0.3 only two quarters are not 0.0, so
\* the order does not matter.)
C28_QuartersSumToYear ==
    last.op = "get_yearly_earnings"
    => last.value
           = float_add(float_add(float_add(
                 float_quarterly_earnings(invoices, last.args.year, 1),
                 float_quarterly_earnings(invoices, last.args.year, 2)),
                 float_quarterly_earnings(invoices, last.args.year, 3)),
                 float_quarterly_earnings(invoices, last.args.year, 4))

-----------------------------------------------------------------------------
(* Properties of the frame specification (SpecFrame) *)

\* the operations of the Ledger that only read it
ReadOnlyOps ==
    {"get_all_invoices", "get_quarter_bounds", "get_quarterly_earnings",
     "get_yearly_earnings", "calculate_quarterly_federal_tax",
     "calculate_quarterly_state_tax", "calculate_sep_401k_limit",
     "generate_quarterly_report", "export_to_csv"}

\* the step leaves the collection (contents and order), the three
\* configuration fields, the path of the backing file and its content as
\* they were
FrameKept ==
    /\ invoices' = invoices
    /\ fed_tax_rate' = fed_tax_rate
    /\ state_tax_rate' = state_tax_rate
    /\ state_code' = state_code
    /\ data_file' = data_file
    /\ files'[data_file] = files[data_file]

-----------------------------------------------------------------------------
(* Properties of the argument specification (SpecAdd) *)

\* C27: whenever add returns (false, reason), the in-memory invoice
\* collection is exactly what it was before the call: no invoice was
\* appended.
C27_FailedAddKeepsCollection ==
    [][(last'.op = "add" /\ ~last'.ok) => invoices' = invoices]_vars

-----------------------------------------------------------------------------
(* Properties of the remittance specification (SpecRemittance)             *)

\* the text of page p of the document holds the phrase, in any mix of cases
HasPhrase(p) ==
    /\ extract.pdf.pages[p].text # None
    /\ Mentions(extract.pdf.pages[p].text, Chars("remittance advice"))

\* the candidates the tables of the pages 1..p appended
TableCandidatesUpTo(p) == Concat([q \in 1..p |-> Concat(extract.log[q].tables)])

\* the text holds "Invoice:", "Date:" and "Amount:", the line that the text
\* pass of extract_from_pdf reads as a candidate
HasInvoiceLine(text) ==
    /\ Mentions(text, Chars("invoice: "))
    /\ Mentions(text, Chars(" date: "))
    /\ Mentions(text, Chars(" amount: "))

\* C21 as stated: pages without the phrase contribute no candidates, and on
\* a page with the phrase whose tables left the list of candidates empty the
\* text pass reads the text, so that a call on the single page "Remittance
\* Advice Invoice: INV-9 Date: 2024-03-15 Amount: $99.50" returns a
\* candidate.
C21_TwoPassShape ==
    /\ \A p \in 1..Len(extract.log) :
           ~HasPhrase(p) => TableCandidatesUpTo(p) = TableCandidatesUpTo(p - 1)
    /\ /\ extract.pc = "returned" /\ extract.raised = ""
       /\ \E p \in 1..Len(extract.log) :
              /\ HasPhrase(p)
              /\ TableCandidatesUpTo(p) = <<>>
              /\ HasInvoiceLine(extract.pdf.pages[p].text)
       => extract.result # <<>>

\* C21, amended: extract_from_remittance_advice has a table pass only.  On a
\* page whose text holds "remittance advice" in any mix of cases every table
\* is processed, and the table of the advice gives its six candidates; a
\* page without the phrase contributes no candidate; no text is scanned; and
\* the call returns the candidates of the tables and nothing else, so the
\* empty list for a page that has only the invoice line in its text.
C21_TablePassOnly ==
    /\ \A p \in 1..Len(extract.log) :
           LET threw == p = Len(extract.log) /\ extract.raised # ""
           IN  /\ ~extract.log[p].scanned /\ extract.log[p].text = <<>>
               /\ ~HasPhrase(p) => Concat(extract.log[p].tables) = <<>>
               /\ HasPhrase(p) /\ ~threw =>
                      /\ Len(extract.log[p].tables) = Len(extract.pdf.pages[p].tables)
                      /\ \A k \in 1..Len(extract.log[p].tables) :
                             extract.pdf.pages[p].tables[k] = AdviceTable
                             => Len(extract.log[p].tables[k]) = 6
    /\ extract.pc = "returned" /\ extract.raised = ""
       => extract.result = TableCandidatesUpTo(Len(extract.log))
    /\ extract.pc = "returned" /\ extract.raised # "" => extract.result = <<>>

\* a call returned the six candidates of the table of the second page, whose
\* text has the phrase in capitals; the first page, with the phrase and the
\* invoice line in its text, gave none
C21_Witness ==
    /\ extract.pc = "returned" /\ extract.raised = ""
    /\ Len(extract.log) = 2
    /\ extract.pdf.pages[1] = Page(<<>>, AdviceWithInvoiceLine)
    /\ extract.pdf.pages[2] = Page(<<AdviceTable>>, Chars("Payment REMITTANCE Advice"))
    /\ HasPhrase(1) /\ HasPhrase(2)
    /\ Len(extract.result) = 6

\* the names of the formats, in the order of the trial
FormatNames == <<Chars("DD/MM/YYYY"), Chars("MM/DD/YYYY"), Chars("YYYY-MM-DD"),
                 Chars("DD-MM-YYYY"), Chars("DD.MM.YYYY")>>

\* the separator of a format: its first character that is no letter
SeparatorOf(name) == name[CHOOSE i \in 1..Len(name) :
                             /\ name[i] \notin {"D", "M", "Y"}
                             /\ \A j \in 1..(i - 1) : name[j] \in {"D", "M", "Y"}]

\* the place of a field (Chars("DD"), Chars("MM"), Chars("YYYY")) in a format
PlaceOf(name, field) ==
    CHOOSE k \in 1..3 : Split(name, SeparatorOf(name))[k] = field

\* the string reads as a date in the format: three runs of digits between
\* the separators, four digits for the year and one or two for day and
\* month, which are a date of the calendar
ReadsAs(s, name) ==
    LET parts == Split(s, SeparatorOf(name))
    IN  /\ Len(parts) = 3
        /\ \A k \in 1..3 : Len(parts[k]) \in 1..4 /\ \A i \in 1..Len(parts[k]) : IsDigit(parts[k][i])
        /\ Len(parts[PlaceOf(name, Chars("YYYY"))]) = 4
        /\ Len(parts[PlaceOf(name, Chars("DD"))]) <= 2
        /\ Len(parts[PlaceOf(name, Chars("MM"))]) <= 2
        /\ ValidDate(ParseInt(parts[PlaceOf(name, Chars("YYYY"))]),
                     ParseInt(parts[PlaceOf(name, Chars("MM"))]),
                     ParseInt(parts[PlaceOf(name, Chars("DD"))]))

\* the date the string is in the format
DateIn(s, name) ==
    LET parts == Split(s, SeparatorOf(name))
    IN  MkDate(ParseInt(parts[PlaceOf(name, Chars("YYYY"))]),
               ParseInt(parts[PlaceOf(name, Chars("MM"))]),
               ParseInt(parts[PlaceOf(name, Chars("DD"))]))

\* the readings of the string in the first format that reads it: one date,
\* or none
FirstReading(s) ==
    LET reading == {k \in 1..Len(FormatNames) : ReadsAs(s, FormatNames[k])}
    IN  IF reading = {} THEN {}
        ELSE {DateIn(s, FormatNames[CHOOSE k \in reading : \A j \in reading : k <= j])}

\* the rows of a table of an advice that hold the document number
AdviceRowsNumbered(table, doc_num) ==
    {r \in 2..Len(table) :
        /\ Len(table[r]) >= LastHeader(RemittanceHeaders(table), "number")
        /\ CellText(table[r][LastHeader(RemittanceHeaders(table), "number")]) = doc_num}

\* the text of the date cell of a row
AdviceDateText(table, r) == CellText(table[r][LastHeader(RemittanceHeaders(table), "date")])

\* the candidates of the table of the advice, with the page and the table
AdviceCandidates ==
    UNION {UNION {{<<p, k, n>> : n \in 1..Len(extract.log[p].tables[k])} :
                    k \in {j \in 1..Len(extract.log[p].tables) :
                              extract.pdf.pages[p].tables[j] = AdviceTable}} :
           p \in 1..Len(extract.log)}

\* C25: the date of a candidate of extract_from_remittance_advice is the
\* reading of its row's date string in the first of DD/MM/YYYY, MM/DD/YYYY,
\* YYYY-MM-DD, DD-MM-YYYY, DD.MM.YYYY that reads it: 01/02/2024 is the first
\* of February and 03/15/2024 the fifteenth of March; a row whose date
\* string no format reads gives no candidate.
C25_FirstFormatWins ==
    \A c \in AdviceCandidates :
        LET cand == extract.log[c[1]].tables[c[2]][c[3]]
            rows == AdviceRowsNumbered(AdviceTable, cand.doc_number)
        IN  /\ rows # {}
            /\ \A r \in rows : FirstReading(AdviceDateText(AdviceTable, r)) = {cand.date}
            /\ cand.doc_number = Chars("D1") => cand.date = MkDate(2024, 2, 1)
            /\ cand.doc_number = Chars("D2") => cand.date = MkDate(2024, 3, 15)

\* a call returned candidates for 01/02/2024 and 03/15/2024 and for each of
\* the other three formats, and none for the rows of 2024/03/15, 31/31/2024
\* and 01/02/2024x
C25_Witness ==
    /\ extract.pc = "returned" /\ extract.raised = ""
    /\ AdviceCandidates # {}
    /\ \A d \in {Chars("D1"), Chars("D2"), Chars("D3"), Chars("D4"), Chars("D5")} :
           \E n \in 1..Len(extract.result) : extract.result[n].doc_number = d
    /\ \A d \in {Chars("D6"), Chars("D7"), Chars("D8")} :
           /\ AdviceRowsNumbered(AdviceTable, d) # {}
           /\ \A n \in 1..Len(extract.result) : extract.result[n].doc_number # d

====
